---- MODULE Spec2Model ----
(***************************************************************************)
(* A model of the xcstrings catalog store (src/src/store.rs): the document *)
(* model, the normalizer, the partial-update merge engine, the JSON writer *)
(* and the store's mutating operations with their lock and disk write.     *)
(*                                                                         *)
(* Representation.  Option<T> is a sequence of length 0 (None) or 1        *)
(* (Some).  An IndexMap is a sequence of <<key, value>> pairs with         *)
(* distinct keys, in insertion order.  The tri-state update fields         *)
(* Option<Option<T>> are therefore <<>> (absent), <<<<>>>> (explicit       *)
(* clear) and <<<<x>>>> (explicit value).                                  *)
(***************************************************************************)
EXTENDS Integers, Sequences, FiniteSets, TLC

\* manager, arcs, calls: the store manager, the Arc<XcStringsStore> it has
\* allocated and the store_for call of each caller
VARIABLES doc, file, last, phase, lock, pc, buf, manager, arcs, calls

vars == <<doc, file, last, phase, lock, pc, buf, manager, arcs, calls>>

----------------------------------------------------------------------------
(* Option and IndexMap                                                     *)

None == <<>>

Some(x) == <<x>>

\* Option::unwrap_or
OrDefault(opt, default) == IF opt = None THEN default ELSE opt[1]

\* the sequence f[1], ..., f[n] of a function on 1..n, as a tuple
SeqOf(f) == <<>> \o f

MapKeys(m) == SeqOf([i \in 1..Len(m) |-> m[i][1]])

ContainsKey(m, k) == \E i \in 1..Len(m) : m[i][1] = k

MapGet(m, k) == m[CHOOSE i \in 1..Len(m) : m[i][1] = k][2]

\* IndexMap::get as an Option
MapFind(m, k) == IF ContainsKey(m, k) THEN Some(MapGet(m, k)) ELSE None

\* IndexMap::shift_remove: the other members keep their relative order
ShiftRemove(m, k) == SelectSeq(m, LAMBDA e : e[1] # k)

\* IndexMap::insert: an existing key keeps its position, a new key goes last
MapInsert(m, k, v) ==
    IF ContainsKey(m, k)
    THEN SeqOf([i \in 1..Len(m) |-> IF m[i][1] = k THEN <<k, v>> ELSE m[i]])
    ELSE Append(m, <<k, v>>)

RECURSIVE MapExtend(_, _)
\* IndexMap::extend: insert every member of `more` in its order
MapExtend(m, more) ==
    IF more = <<>> THEN m
    ELSE MapExtend(MapInsert(m, more[1][1], more[1][2]), Tail(more))

----------------------------------------------------------------------------
(* Strings of the model                                                    *)

DEFAULT_VERSION == "1.0"

DEFAULT_SOURCE_LANGUAGE == "en"

DEFAULT_TRANSLATION_STATE == "translated"

NEEDS_TRANSLATION_STATE == "needs-translation"

\* the strings s of the model with s.trim().is_empty()
WhitespaceOnly == {"", " "}

----------------------------------------------------------------------------
(* Document model                                                          *)

XcStringUnit(state, value) == [state |-> state, value |-> value]

DefaultStringUnit == XcStringUnit(None, None)

XcLocalization(unit, subs, variations) ==
    [string_unit |-> unit, substitutions |-> subs, variations |-> variations]

DefaultLocalization == XcLocalization(None, <<>>, <<>>)

XcSubstitution(argNum, fmt, unit, variations) ==
    [arg_num |-> argNum, format_specifier |-> fmt, string_unit |-> unit,
     variations |-> variations]

DefaultSubstitution == XcSubstitution(None, None, None, <<>>)

XcStringEntry(comment, extraction, locs, should) ==
    [comment |-> comment, extraction_state |-> extraction,
     localizations |-> locs, should_translate |-> should]

DefaultEntry == XcStringEntry(None, None, <<>>, None)

TranslationUpdate(state, value, subs, variations) ==
    [state |-> state, value |-> value, substitutions |-> subs,
     variations |-> variations]

SubstitutionUpdate(state, value, argNum, fmt, variations) ==
    [state |-> state, value |-> value, arg_num |-> argNum,
     format_specifier |-> fmt, variations |-> variations]

----------------------------------------------------------------------------
(* Normalizer                                                              *)

is_blank(value) == value = None \/ value[1] \in WhitespaceOnly

sanitize_string_unit_default_first(unit) ==
    LET u1 == IF is_blank(unit.value) /\ unit.state = None
              THEN [unit EXCEPT !.value = None] ELSE unit
        u2 == IF u1.value # None /\ u1.state = None
              THEN [u1 EXCEPT !.state = Some(DEFAULT_TRANSLATION_STATE)]
              ELSE u1
    IN  IF is_blank(u2.state) THEN [u2 EXCEPT !.state = None] ELSE u2

\* a blank value is removed whatever the state
sanitize_string_unit_blank_value_first(unit) ==
    LET value == IF is_blank(unit.value) THEN None ELSE unit.value
        state == IF is_blank(unit.state) THEN None ELSE unit.state
    IN  XcStringUnit(IF value # None /\ state = None
                     THEN Some(DEFAULT_TRANSLATION_STATE) ELSE state,
                     value)

sanitize_string_unit(unit) ==
    LET u1 == IF is_blank(unit.value) /\ unit.state = None
              THEN [unit EXCEPT !.value = None] ELSE unit
        u2 == IF is_blank(u1.state) THEN [u1 EXCEPT !.state = None] ELSE u1
    IN  IF u2.value # None /\ u2.state = None
        THEN [u2 EXCEPT !.state = Some(DEFAULT_TRANSLATION_STATE)]
        ELSE u2

\* a unit counts only by a value that is not blank
string_unit_has_nonblank_value(unit) == ~is_blank(unit.value)

string_unit_has_content(unit) == unit.value # None \/ unit.state # None

\* Option<XcStringUnit> -> bool: .map(|u| !string_unit_has_content(u)).unwrap_or(true)
UnitOptEmpty(unitOpt) == unitOpt = None \/ ~string_unit_has_content(unitOpt[1])

localization_is_empty(loc) ==
    /\ UnitOptEmpty(loc.string_unit)
    /\ loc.variations = <<>>
    /\ loc.substitutions = <<>>

substitution_is_empty(sub) ==
    /\ UnitOptEmpty(sub.string_unit)
    /\ sub.variations = <<>>
    /\ sub.arg_num = None
    /\ sub.format_specifier = None

\* VariationContext
TopLevel == "TopLevel"

NestedUnderPlural == "NestedUnderPlural"

NestedUnderDevice == "NestedUnderDevice"

nested_context_flat(context, selector) == context

nested_context(context, selector) ==
    CASE context = TopLevel /\ selector = "plural" -> NestedUnderPlural
      [] context = TopLevel /\ selector = "device" -> NestedUnderDevice
      [] context = NestedUnderDevice /\ selector = "plural" -> NestedUnderPlural
      [] OTHER -> context

\* the sanitize-then-drop of an Option<XcStringUnit> that opens both
\* normalize_localization_inner and normalize_substitution
NormalizeUnitOpt(unitOpt) ==
    IF unitOpt = None THEN None
    ELSE LET u == sanitize_string_unit(unitOpt[1])
         IN  IF string_unit_has_content(u) THEN Some(u) ELSE None

\* the match of validate_and_normalize_variations: which selector the
\* context forbids in this selector set (None when nothing is dropped)
forbidden_selector_plural_loses(variations, context) ==
    CASE context = TopLevel ->
            IF ContainsKey(variations, "plural") /\ ContainsKey(variations, "device")
            THEN Some("plural") ELSE None
      [] context = NestedUnderPlural -> None
      [] context = NestedUnderDevice ->
            IF ContainsKey(variations, "device") THEN Some("device") ELSE None

\* under "device" the rule removes "plural" as well
forbidden_selector_plural_under_device(variations, context) ==
    CASE context = TopLevel ->
            IF ContainsKey(variations, "plural") /\ ContainsKey(variations, "device")
            THEN Some("device") ELSE None
      [] context = NestedUnderPlural ->
            IF ContainsKey(variations, "device") THEN Some("device") ELSE None
      [] context = NestedUnderDevice ->
            IF ContainsKey(variations, "plural") THEN Some("plural")
            ELSE IF ContainsKey(variations, "device") THEN Some("device") ELSE None

forbidden_selector(variations, context) ==
    CASE context = TopLevel ->
            IF ContainsKey(variations, "plural") /\ ContainsKey(variations, "device")
            THEN Some("device") ELSE None
      [] context = NestedUnderPlural ->
            IF ContainsKey(variations, "device") THEN Some("device") ELSE None
      [] context = NestedUnderDevice ->
            IF ContainsKey(variations, "device") THEN Some("device") ELSE None

RECURSIVE normalize_localization_inner(_, _)
RECURSIVE validate_and_normalize_variations(_, _)
RECURSIVE normalize_substitution(_)

\* The code normalizes in place and returns whether the node is empty; here
\* the operators return the normalized node and the callers ask
\* localization_is_empty / substitution_is_empty of it, which is the value
\* the code returns.
validate_and_normalize_variations(variations, context) ==
    LET normCases(selector, cases) ==
            SelectSeq(
                SeqOf([j \in 1..Len(cases) |->
                    <<cases[j][1],
                      normalize_localization_inner(
                          cases[j][2], nested_context(context, selector))>>]),
                LAMBDA c : ~localization_is_empty(c[2]))
        nested == SeqOf([i \in 1..Len(variations) |->
                    <<variations[i][1],
                      normCases(variations[i][1], variations[i][2])>>])
        drop == forbidden_selector(nested, context)
        ruled == IF drop = None THEN nested ELSE ShiftRemove(nested, drop[1])
    IN  SelectSeq(ruled, LAMBDA s : s[2] # <<>>)

normalize_substitution(sub) ==
    LET unit == NormalizeUnitOpt(sub.string_unit)
    IN  [sub EXCEPT !.string_unit = unit,
                    !.variations =
                        validate_and_normalize_variations(sub.variations, TopLevel)]

normalize_localization_inner(loc, context) ==
    LET unit == NormalizeUnitOpt(loc.string_unit)
        variations == validate_and_normalize_variations(loc.variations, context)
        subs == SelectSeq(
                    SeqOf([i \in 1..Len(loc.substitutions) |->
                        <<loc.substitutions[i][1],
                          normalize_substitution(loc.substitutions[i][2])>>]),
                    LAMBDA s : ~substitution_is_empty(s[2]))
    IN  XcLocalization(unit, subs, variations)

normalize_localization(loc) == normalize_localization_inner(loc, TopLevel)

placeholder_localization ==
    XcLocalization(Some(XcStringUnit(Some(NEEDS_TRANSLATION_STATE), None)), <<>>, <<>>)

\* retain of one entry's localizations, then the entry's own test
normalize_entry(entry) ==
    [entry EXCEPT !.localizations =
        SelectSeq(
            SeqOf([i \in 1..Len(entry.localizations) |->
                <<entry.localizations[i][1],
                  normalize_localization(entry.localizations[i][2])>>]),
            LAMBDA l : ~localization_is_empty(l[2]))]

entry_is_retained(entry) ==
    IF entry.localizations = <<>>
    THEN entry.comment # None \/ entry.extraction_state # None
            \/ entry.should_translate # None
    ELSE TRUE

normalize_strings_file(d) ==
    [d EXCEPT
        !.version = IF d.version \in WhitespaceOnly THEN DEFAULT_VERSION ELSE d.version,
        !.source_language = IF d.source_language \in WhitespaceOnly
                            THEN DEFAULT_SOURCE_LANGUAGE ELSE d.source_language,
        !.strings =
            SelectSeq(
                SeqOf([i \in 1..Len(d.strings) |->
                    <<d.strings[i][1], normalize_entry(d.strings[i][2])>>]),
                LAMBDA e : entry_is_retained(e[2]))]

----------------------------------------------------------------------------
(* Update engine                                                           *)

\* `if let Some(x) = update.field { target = x }` for a tri-state field
merge_field_ignoring_clear(stored, upd) ==
    IF upd = None \/ upd[1] = None THEN stored ELSE upd[1]

merge_field_always_overwrite(stored, upd) == IF upd = None THEN None ELSE upd[1]

merge_field(stored, upd) == IF upd = None THEN stored ELSE upd[1]

\* the string-unit step that opens apply_update and apply_substitution_update:
\* take() the stored unit, merge state and value, sanitize, keep it only with
\* content
merge_unit_fields(unit, update) ==
    [unit EXCEPT !.state = merge_field(unit.state, update.state),
                 !.value = merge_field(unit.value, update.value)]

keep_unit_with_content(unit) == IF string_unit_has_content(unit) THEN Some(unit) ELSE None

merge_string_unit(unitOpt, update) ==
    keep_unit_with_content(
        sanitize_string_unit(
            merge_unit_fields(OrDefault(unitOpt, DefaultStringUnit), update)))

RECURSIVE apply_update(_, _)
RECURSIVE merge_cases(_, _)
RECURSIVE merge_selectors(_, _, _)
RECURSIVE merge_substitutions(_, _, _)
RECURSIVE apply_substitution_update(_, _)

\* if localization_is_empty(&nested_loc) { continue; }
\* selector_entry.insert(case_key, nested_loc);
insert_case(selector_entry, case_key, nested_loc) ==
    IF localization_is_empty(nested_loc) THEN selector_entry
    ELSE MapInsert(selector_entry, case_key, nested_loc)

\* the inner loop `for (case_key, nested_update) in cases_update`
merge_cases(selector_entry, cases_update) ==
    IF cases_update = <<>> THEN selector_entry
    ELSE merge_cases(
             insert_case(
                 ShiftRemove(selector_entry, cases_update[1][1]),
                 cases_update[1][1],
                 apply_update(
                     OrDefault(MapFind(selector_entry, cases_update[1][1]),
                               DefaultLocalization),
                     cases_update[1][2])),
             Tail(cases_update))

\* if !selector_entry.is_empty() { target.variations.insert(selector, selector_entry); }
insert_selector(target_variations, selector, selector_entry) ==
    IF selector_entry # <<>> THEN MapInsert(target_variations, selector, selector_entry)
    ELSE target_variations

\* the outer loop `for (selector, cases_update) in variations`: returns the
\* pair <<target.variations, existing_variations>> after the loop
merge_selectors(target_variations, existing_variations, updates) ==
    IF updates = <<>> THEN <<target_variations, existing_variations>>
    ELSE merge_selectors(
             insert_selector(
                 target_variations,
                 updates[1][1],
                 merge_cases(OrDefault(MapFind(existing_variations, updates[1][1]), <<>>),
                             updates[1][2])),
             ShiftRemove(existing_variations, updates[1][1]),
             Tail(updates))

\* target.variations.extend(existing_variations ... filter(!cases.is_empty()))
extend_with_untouched(merged) ==
    MapExtend(merged[1], SelectSeq(merged[2], LAMBDA s : s[2] # <<>>))

\* the `if let Some(variations) = update.variations` block shared by
\* apply_update and apply_substitution_update
merge_variations_dropping_untouched(variations, updateOpt) ==
    IF updateOpt = None THEN variations
    ELSE validate_and_normalize_variations(
             merge_selectors(<<>>, variations, updateOpt[1])[1], TopLevel)

merge_variations(variations, updateOpt) ==
    IF updateOpt = None THEN variations
    ELSE validate_and_normalize_variations(
             extend_with_untouched(merge_selectors(<<>>, variations, updateOpt[1])),
             TopLevel)

\* Some(sub_update): insert the merged substitution unless it is empty;
\* None: the stored one is removed and nothing is inserted
insert_substitution(target_subs, name, maybe_update, substitution) ==
    IF maybe_update # None /\ ~substitution_is_empty(substitution)
    THEN MapInsert(target_subs, name, substitution)
    ELSE target_subs

\* the loop `for (name, maybe_update) in substitutions`: returns the pair
\* <<target.substitutions, existing_substitutions>> after the loop
merge_substitutions(target_subs, existing_subs, updates) ==
    IF updates = <<>> THEN <<target_subs, existing_subs>>
    ELSE merge_substitutions(
             insert_substitution(
                 target_subs,
                 updates[1][1],
                 updates[1][2],
                 apply_substitution_update(
                     OrDefault(MapFind(existing_subs, updates[1][1]), DefaultSubstitution),
                     OrDefault(updates[1][2],
                               SubstitutionUpdate(None, None, None, None, None)))),
             ShiftRemove(existing_subs, updates[1][1]),
             Tail(updates))

\* target.substitutions.extend(existing ... filter(!substitution_is_empty(sub)))
extend_with_untouched_substitutions(merged) ==
    MapExtend(merged[1], SelectSeq(merged[2], LAMBDA s : ~substitution_is_empty(s[2])))

apply_substitution_update_replacing(target, update) ==
    XcSubstitution(
        merge_field(None, update.arg_num),
        merge_field(None, update.format_specifier),
        merge_string_unit(None, update),
        merge_variations(<<>>, update.variations))

apply_substitution_update(target, update) ==
    XcSubstitution(
        merge_field(target.arg_num, update.arg_num),
        merge_field(target.format_specifier, update.format_specifier),
        merge_string_unit(target.string_unit, update),
        merge_variations(target.variations, update.variations))

apply_update(target, update) ==
    XcLocalization(
        merge_string_unit(target.string_unit, update),
        IF update.substitutions = None THEN target.substitutions
        ELSE extend_with_untouched_substitutions(
                 merge_substitutions(<<>>, target.substitutions, update.substitutions[1])),
        merge_variations(target.variations, update.variations))

----------------------------------------------------------------------------
(* JSON values (serde_json::Value) and the serde mapping of the document   *)
(* A JSON value is a record with a tag t and the payload of every kind, so *)
(* that any two values can be compared: s for a string (and for a bool its *)
(* spelling), n for a number, m for an object's members in order.          *)

JNull == [t |-> "null", s |-> "", n |-> 0, m |-> <<>>]

JStr(str) == [t |-> "str", s |-> str, n |-> 0, m |-> <<>>]

JBool(b) == [t |-> "bool", s |-> IF b THEN "true" ELSE "false", n |-> 0, m |-> <<>>]

JNum(num) == [t |-> "num", s |-> "", n |-> num, m |-> <<>>]

JObj(members) == [t |-> "obj", s |-> "", n |-> 0, m |-> members]

\* a member written with skip_serializing_if = "Option::is_none"
SkipNone(name, opt, json) == IF opt = None THEN <<>> ELSE <<<<name, json>>>>

\* a member written with skip_serializing_if = "IndexMap::is_empty"
SkipEmpty(name, map, json) == IF map = <<>> THEN <<>> ELSE <<<<name, json>>>>

\* an Option<String> member without skip_serializing_if: None is written null
JOptStr(opt) == IF opt = None THEN JNull ELSE JStr(opt[1])

unit_to_json(unit) ==
    JObj(<< <<"state", JOptStr(unit.state)>>, <<"value", JOptStr(unit.value)>> >>)

RECURSIVE localization_to_json(_)
RECURSIVE variations_to_json(_)

variations_to_json(variations) ==
    JObj(SeqOf([i \in 1..Len(variations) |->
            <<variations[i][1],
              JObj(SeqOf([j \in 1..Len(variations[i][2]) |->
                      <<variations[i][2][j][1],
                        localization_to_json(variations[i][2][j][2])>>]))>>]))

substitution_to_json(sub) ==
    JObj(SkipNone("argNum", sub.arg_num, JNum(OrDefault(sub.arg_num, 0)))
         \o SkipNone("formatSpecifier", sub.format_specifier,
                     JStr(OrDefault(sub.format_specifier, "")))
         \o SkipNone("stringUnit", sub.string_unit,
                     unit_to_json(OrDefault(sub.string_unit, DefaultStringUnit)))
         \o SkipEmpty("variations", sub.variations, variations_to_json(sub.variations)))

substitutions_to_json(subs) ==
    JObj(SeqOf([i \in 1..Len(subs) |-> <<subs[i][1], substitution_to_json(subs[i][2])>>]))

localization_to_json(loc) ==
    JObj(SkipNone("stringUnit", loc.string_unit,
                  unit_to_json(OrDefault(loc.string_unit, DefaultStringUnit)))
         \o SkipEmpty("substitutions", loc.substitutions,
                      substitutions_to_json(loc.substitutions))
         \o SkipEmpty("variations", loc.variations, variations_to_json(loc.variations)))

localizations_to_json(locs) ==
    JObj(SeqOf([i \in 1..Len(locs) |-> <<locs[i][1], localization_to_json(locs[i][2])>>]))

entry_to_json(entry) ==
    JObj(SkipNone("comment", entry.comment, JStr(OrDefault(entry.comment, "")))
         \o SkipNone("extractionState", entry.extraction_state,
                     JStr(OrDefault(entry.extraction_state, "")))
         \o SkipEmpty("localizations", entry.localizations,
                      localizations_to_json(entry.localizations))
         \o SkipNone("shouldTranslate", entry.should_translate,
                     JBool(OrDefault(entry.should_translate, FALSE))))

strings_to_json(strings) ==
    JObj(SeqOf([i \in 1..Len(strings) |-> <<strings[i][1], entry_to_json(strings[i][2])>>]))

\* the file is rebuilt from the typed fields alone
to_json_value_from_fields(d) ==
    JObj(<< <<"version", JStr(d.version)>>,
            <<"sourceLanguage", JStr(d.source_language)>>,
            <<"strings", strings_to_json(d.strings)>> >>)

\* FormatVersion is untagged: a string or an integer; the model keeps the
\* JSON value it was read from
to_json_value(d) ==
    LET r1 == MapInsert(d.raw, "version", JStr(d.version))
        r2 == IF d.format_version # None
              THEN MapInsert(r1, "formatVersion", d.format_version[1])
              ELSE ShiftRemove(r1, "formatVersion")
        r3 == MapInsert(r2, "sourceLanguage", JStr(d.source_language))
    IN  JObj(MapInsert(r3, "strings", strings_to_json(d.strings)))

XcStringsFile(raw, version, formatVersion, source, strings) ==
    [raw |-> raw, version |-> version, format_version |-> formatVersion,
     source_language |-> source, strings |-> strings]

DefaultFile ==
    XcStringsFile(
        << <<"version", JStr(DEFAULT_VERSION)>>,
           <<"sourceLanguage", JStr(DEFAULT_SOURCE_LANGUAGE)>>,
           <<"strings", JObj(<<>>)>> >>,
        DEFAULT_VERSION, None, DEFAULT_SOURCE_LANGUAGE, <<>>)

----------------------------------------------------------------------------
(* Deserialization (serde derive of the Xc* types, from_json_value)        *)
(* A Result is <<>> for a serde error and <<v>> for Ok(v).                 *)

Err == <<>>

Ok(v) == <<v>>

AllOk(results) == \A i \in 1..Len(results) : results[i] # Err

\* an Option<String> field: a missing member and null are None
deser_opt_str(member) ==
    IF member = None \/ member[1].t = "null" THEN Ok(None)
    ELSE IF member[1].t = "str" THEN Ok(Some(member[1].s)) ELSE Err

deser_opt_num(member) ==
    IF member = None \/ member[1].t = "null" THEN Ok(None)
    ELSE IF member[1].t = "num" THEN Ok(Some(member[1].n)) ELSE Err

deser_opt_bool(member) ==
    IF member = None \/ member[1].t = "null" THEN Ok(None)
    ELSE IF member[1].t = "bool" THEN Ok(Some(member[1].s = "true")) ELSE Err

deser_unit(j) ==
    IF j.t # "obj" THEN Err
    ELSE LET state == deser_opt_str(MapFind(j.m, "state"))
             value == deser_opt_str(MapFind(j.m, "value"))
         IN  IF state = Err \/ value = Err THEN Err
             ELSE Ok(XcStringUnit(state[1], value[1]))

deser_opt_unit(member) ==
    IF member = None \/ member[1].t = "null" THEN Ok(None)
    ELSE LET unit == deser_unit(member[1])
         IN  IF unit = Err THEN Err ELSE Ok(Some(unit[1]))

RECURSIVE deser_localization(_)
RECURSIVE deser_variations(_)

\* a map member with #[serde(default)]: missing is empty, null is an error
\* `values`: the member's values, each deserialized
deser_map(member, values) ==
    IF member = None THEN Ok(<<>>)
    ELSE IF member[1].t # "obj" THEN Err
    ELSE IF ~AllOk(values) THEN Err
    ELSE Ok(SeqOf([i \in 1..Len(values) |-> <<member[1].m[i][1], values[i][1]>>]))

\* the values of an object member, none when it is missing or no object
ValuesOf(member) ==
    IF member = None \/ member[1].t # "obj" THEN <<>>
    ELSE SeqOf([i \in 1..Len(member[1].m) |-> member[1].m[i][2]])

deser_localizations(member) ==
    deser_map(member,
        SeqOf([i \in 1..Len(ValuesOf(member)) |-> deser_localization(ValuesOf(member)[i])]))

deser_cases(j) == deser_localizations(Some(j))

deser_variations(member) ==
    deser_map(member,
        SeqOf([i \in 1..Len(ValuesOf(member)) |-> deser_cases(ValuesOf(member)[i])]))

deser_substitution(j) ==
    IF j.t # "obj" THEN Err
    ELSE LET argNum == deser_opt_num(MapFind(j.m, "argNum"))
             fmt == deser_opt_str(MapFind(j.m, "formatSpecifier"))
             unit == deser_opt_unit(MapFind(j.m, "stringUnit"))
             variations == deser_variations(MapFind(j.m, "variations"))
         IN  IF argNum = Err \/ fmt = Err \/ unit = Err \/ variations = Err THEN Err
             ELSE Ok(XcSubstitution(argNum[1], fmt[1], unit[1], variations[1]))

deser_localization(j) ==
    IF j.t # "obj" THEN Err
    ELSE LET unit == deser_opt_unit(MapFind(j.m, "stringUnit"))
             member == MapFind(j.m, "substitutions")
             subs == deser_map(member,
                        SeqOf([i \in 1..Len(ValuesOf(member)) |->
                                deser_substitution(ValuesOf(member)[i])]))
             variations == deser_variations(MapFind(j.m, "variations"))
         IN  IF unit = Err \/ subs = Err \/ variations = Err THEN Err
             ELSE Ok(XcLocalization(unit[1], subs[1], variations[1]))

deser_entry(j) ==
    IF j.t # "obj" THEN Err
    ELSE LET comment == deser_opt_str(MapFind(j.m, "comment"))
             extraction == deser_opt_str(MapFind(j.m, "extractionState"))
             locs == deser_localizations(MapFind(j.m, "localizations"))
             should == deser_opt_bool(MapFind(j.m, "shouldTranslate"))
         IN  IF comment = Err \/ extraction = Err \/ locs = Err \/ should = Err
             THEN Err
             ELSE Ok(XcStringEntry(comment[1], extraction[1], locs[1], should[1]))

\* .and_then(|v| v.as_str()).unwrap_or(default)
str_member_or(raw, name, default) ==
    LET member == MapFind(raw, name)
    IN  IF member # None /\ member[1].t = "str" THEN member[1].s ELSE default

\* Result<XcStringsFile, serde_json::Error>
from_json_value(value) ==
    IF value.t # "obj" THEN Err
    ELSE LET raw == value.m
             fv == MapFind(raw, "formatVersion")
             strings == IF ContainsKey(raw, "strings")
                        THEN deser_map(MapFind(raw, "strings"),
                                 SeqOf([i \in 1..Len(ValuesOf(MapFind(raw, "strings"))) |->
                                         deser_entry(ValuesOf(MapFind(raw, "strings"))[i])]))
                        ELSE Err
         IN  Ok(XcStringsFile(
                 raw,
                 str_member_or(raw, "version", "1.0"),
                 IF fv # None /\ fv[1].t \in {"str", "num"} THEN fv ELSE None,
                 str_member_or(raw, "sourceLanguage", "en"),
                 \* .and_then(|v| from_value(v).ok()).unwrap_or_default()
                 IF strings = Err THEN <<>> ELSE strings[1]))

\* The disk holds None (no file) or Some(JSON value): the bytes of
\* to_apple_format up to serde_json::from_str.
\* load_or_create: Result<XcStringsFile, StoreError>
\* the `?` after from_json_value, then normalize_strings_file(&mut doc)
normalize_parsed(parsed) ==
    IF parsed = Err THEN Err ELSE Ok(normalize_strings_file(parsed[1]))

load_or_create(disk) ==
    IF disk = None THEN Ok(normalize_strings_file(DefaultFile))
    ELSE normalize_parsed(from_json_value(disk[1]))

----------------------------------------------------------------------------
(* Catalog store operations.  Each operator is the part of the handler     *)
(* that runs under the write lock: it returns the catalog after            *)
(* normalize_strings_file, the bytes handed to fs::write and the result.   *)

RECURSIVE TranslationValue_from_localization(_)

variations_to_value(variations) ==
    SeqOf([i \in 1..Len(variations) |->
        <<variations[i][1],
          [j \in 1..Len(variations[i][2]) |->
              <<variations[i][2][j][1],
                TranslationValue_from_localization(variations[i][2][j][2])>>]>>])

unit_field(unitOpt, field) == IF unitOpt = None THEN None ELSE unitOpt[1][field]

SubstitutionValue_from_substitution(sub) ==
    [state |-> unit_field(sub.string_unit, "state"),
     value |-> unit_field(sub.string_unit, "value"),
     arg_num |-> sub.arg_num,
     format_specifier |-> sub.format_specifier,
     variations |-> variations_to_value(sub.variations)]

TranslationValue_from_localization(loc) ==
    [state |-> unit_field(loc.string_unit, "state"),
     value |-> unit_field(loc.string_unit, "value"),
     substitutions |->
        SeqOf([i \in 1..Len(loc.substitutions) |->
            <<loc.substitutions[i][1],
              SubstitutionValue_from_substitution(loc.substitutions[i][2])>>]),
     variations |-> variations_to_value(loc.variations)]

\* doc.strings.get(key).and_then(|entry| entry.localizations.get(language))
stored_localization(d, key, language) ==
    LET entry == MapFind(d.strings, key)
    IN  IF entry = None THEN None ELSE MapFind(entry[1].localizations, language)

get_translation(d, key, language) ==
    LET loc == stored_localization(d, key, language)
    IN  IF loc = None THEN None ELSE Some(TranslationValue_from_localization(loc[1]))

\* what a handler hands back: the catalog it leaves in memory, the bytes it
\* writes (None: it returns before any write), its Ok value or its error
Outcome(d, bytes, err, ret) == [doc |-> d, bytes |-> bytes, err |-> err, ret |-> ret]

\* let json_value = doc.to_json_value(); to_apple_format(&json_value)
Serialized(normalized, ret) ==
    Outcome(normalized, Some(to_json_value(normalized)), "", ret)

\* the catalog is written as the handler left it
Persist_as_left(d, ret) == Serialized(d, ret)

\* normalize_strings_file(&mut doc), then the serialization of the result
Persist(d, ret) == Serialized(normalize_strings_file(d), ret)

\* the handler writes the file before it returns its error
Fail_after_write(d, err) == Outcome(d, Some(to_json_value(d)), err, None)

Fail(d, err) == Outcome(d, None, err, None)

\* strings.entry(key).or_insert_with(XcStringEntry::default): the entry the
\* handler then changes in place, and the catalog with the changed entry
entry_or_insert(d, key) == OrDefault(MapFind(d.strings, key), DefaultEntry)

with_entry(d, key, entry) == [d EXCEPT !.strings = MapInsert(d.strings, key, entry)]

\* entry.localizations.entry(language).or_insert_with(default), changed in
\* place to loc
put_localization(entry, language, loc) ==
    [entry EXCEPT !.localizations = MapInsert(entry.localizations, language, loc)]

upsert_reinserted(d, key, language, loc) ==
    Persist([d EXCEPT !.strings =
                Append(ShiftRemove(d.strings, key),
                       <<key, put_localization(entry_or_insert(d, key), language, loc)>>)],
            TranslationValue_from_localization(loc))

upsert_translation_reinserting(d, key, language, update) ==
    upsert_reinserted(d, key, language,
        apply_update(OrDefault(stored_localization(d, key, language), DefaultLocalization),
                     update))

\* the handler from `let updated = TranslationValue::from_localization(loc)` on
upsert_applied(d, key, language, loc) ==
    Persist(with_entry(d, key, put_localization(entry_or_insert(d, key), language, loc)),
            TranslationValue_from_localization(loc))

upsert_translation(d, key, language, update) ==
    upsert_applied(d, key, language,
        apply_update(OrDefault(stored_localization(d, key, language), DefaultLocalization),
                     update))

\* the entry is left in place when its last localization goes
delete_translation_keeping_entry(d, key, language) ==
    IF stored_localization(d, key, language) = None
    THEN Fail(d, "TranslationMissing")
    ELSE Persist(with_entry(d, key,
                    [entry_or_insert(d, key) EXCEPT
                        !.localizations = ShiftRemove(@, language)]),
                 None)

delete_translation(d, key, language) ==
    IF stored_localization(d, key, language) = None
    THEN Fail(d, "TranslationMissing")
    ELSE LET entry == MapGet(d.strings, key)
             locs == ShiftRemove(entry.localizations, language)
         IN  Persist(
                 [d EXCEPT !.strings =
                     IF locs = <<>> THEN ShiftRemove(d.strings, key)
                     ELSE MapInsert(d.strings, key, [entry EXCEPT !.localizations = locs])],
                 None)

\* the entry is replaced by a fresh one that has the comment alone
set_comment_on_fresh_entry(d, key, comment) ==
    Persist(with_entry(d, key, [DefaultEntry EXCEPT !.comment = comment]), None)

set_comment(d, key, comment) ==
    LET put == [entry_or_insert(d, key) EXCEPT !.comment = comment]
    IN  Persist(with_entry(d, key, put), None)

set_extraction_state(d, key, state) ==
    Persist(with_entry(d, key, [entry_or_insert(d, key) EXCEPT !.extraction_state = state]),
            None)

set_should_translate(d, key, should_translate) ==
    Persist(with_entry(d, key,
                [entry_or_insert(d, key) EXCEPT !.should_translate = should_translate]),
            None)

\* an Ok(()) returned before the lock is taken: nothing changed, nothing written
Unchanged(d) == Outcome(d, None, "", None)

delete_key(d, key) ==
    IF ~ContainsKey(d.strings, key)
    THEN Fail(d, "KeyMissing")
    ELSE Persist([d EXCEPT !.strings = ShiftRemove(d.strings, key)], None)

\* the entry stays where it was instead of moving to the end
rename_key_in_place(d, old_key, new_key) ==
    IF old_key = new_key THEN Unchanged(d)
    ELSE IF ContainsKey(d.strings, new_key) THEN Fail(d, "KeyExists")
    ELSE IF ~ContainsKey(d.strings, old_key) THEN Fail(d, "KeyMissing")
    ELSE Persist([d EXCEPT !.strings =
                    SeqOf([i \in 1..Len(d.strings) |->
                        IF d.strings[i][1] = old_key
                        THEN <<new_key, d.strings[i][2]>> ELSE d.strings[i]])],
                 None)

rename_key(d, old_key, new_key) ==
    IF old_key = new_key THEN Unchanged(d)
    ELSE IF ContainsKey(d.strings, new_key) THEN Fail(d, "KeyExists")
    ELSE IF ~ContainsKey(d.strings, old_key) THEN Fail(d, "KeyMissing")
    ELSE Persist([d EXCEPT !.strings =
                    MapInsert(ShiftRemove(d.strings, old_key), new_key,
                              MapGet(d.strings, old_key))],
                 None)

\* str::trim on the language codes callers pass: one blank code and one code
\* with a leading space stand for the padded inputs
trim(language) ==
    CASE language = " " -> ""
      [] language = " fr" -> "fr"
      [] OTHER -> language

\* the language codes that are keys of some Entry's localizations
entry_languages(d) ==
    UNION { {d.strings[i][2].localizations[j][1] :
                j \in 1..Len(d.strings[i][2].localizations)} :
            i \in 1..Len(d.strings) }

\* the source language is left out
list_languages_entries_only(d) == entry_languages(d)

\* the BTreeSet of the handler: a set stands for the sorted list
list_languages(d) == {d.source_language} \cup entry_languages(d)

language_exists(d, language) == language \in entry_languages(d)

\* loc.string_unit.as_ref()?.value.clone()
extract_translation_value(loc) == unit_field(loc.string_unit, "value")

\* Some(value) if !value.is_empty(): the key has a value for the language
has_value(d, key, lang) ==
    LET localization == MapFind(MapGet(d.strings, key).localizations, lang)
    IN  /\ localization # None
        /\ extract_translation_value(localization[1]) \notin {None, Some("")}

\* a value that another language of the entry has too counts as missing
is_untranslated_or_duplicate(d, key, lang) ==
    \/ ~has_value(d, key, lang)
    \/ \E other \in list_languages(d) \ {lang} :
        /\ has_value(d, key, other)
        /\ stored_localization(d, key, other)[1].string_unit[1].value
            = stored_localization(d, key, lang)[1].string_unit[1].value

is_untranslated(d, key, lang) == ~has_value(d, key, lang)

\* the Vec pushed for one language, in the order of doc.strings
untranslated_keys(d, lang) ==
    SelectSeq(MapKeys(d.strings), LAMBDA key : is_untranslated(d, key, lang))

\* the HashMap<String, Vec<String>> as the set of its entries: a language
\* without any untranslated key has none; `langs` is built as in list_languages
list_untranslated(d) ==
    {<<lang, untranslated_keys(d, lang)>> :
        lang \in {l \in list_languages(d) : untranslated_keys(d, l) # <<>>}}

\* every key counts, whatever its shouldTranslate
all_keys(d) == MapKeys(d.strings)

\* .filter(|(_, entry)| entry.should_translate.unwrap_or(true))
translatable_keys(d) ==
    SelectSeq(MapKeys(d.strings),
              LAMBDA key : OrDefault(MapGet(d.strings, key).should_translate, TRUE))

translated_count(d, lang) ==
    Len(SelectSeq(translatable_keys(d), LAMBDA key : has_value(d, key, lang)))

RECURSIVE gcd(_, _)
gcd(a, b) == IF b = 0 THEN a ELSE gcd(b, a % b)

\* the f64 (count / total) * 100.0 as the fraction <<numerator, denominator>>
\* in lowest terms; the rounding of the floating-point operations is left out
percentage(count, total) ==
    <<(100 * count) \div gcd(100 * count, total), total \div gcd(100 * count, total)>>

\* the HashMap<String, f64> as the set of its entries
get_translation_percentages(d) ==
    IF translatable_keys(d) = <<>> THEN {}
    ELSE {<<lang, percentage(translated_count(d, lang), Len(translatable_keys(d)))>> :
            lang \in list_languages(d)}

\* entry.localizations.entry(language).or_insert_with(placeholder_localization)
\* for every entry
with_placeholders(d, language) ==
    [d EXCEPT !.strings =
        SeqOf([i \in 1..Len(d.strings) |->
            <<d.strings[i][1],
              IF ContainsKey(d.strings[i][2].localizations, language)
              THEN d.strings[i][2]
              ELSE put_localization(d.strings[i][2], language,
                                    placeholder_localization)>>])]

\* existing_langs of add_language: the source language and every entry's codes
existing_langs(d) == {d.source_language} \cup entry_languages(d)

\* the source language is not looked at
add_trimmed_ignoring_source(d, language) ==
    IF language = "" THEN Fail(d, "InvalidLanguage")
    ELSE IF language_exists(d, language) THEN Fail(d, "LanguageExists")
    ELSE Persist(with_placeholders(d, language), None)

\* add_language from `let language = trimmed.to_string()` on
add_trimmed(d, language) ==
    IF language = "" THEN Fail(d, "InvalidLanguage")
    ELSE IF language \in existing_langs(d) THEN Fail(d, "LanguageExists")
    ELSE Persist(with_placeholders(d, language), None)

add_language(d, language) == add_trimmed(d, trim(language))

\* shift_remove(language) in every entry, then
\* strings.retain(|_, entry| !entry.localizations.is_empty())
without_language(d, language) ==
    [d EXCEPT !.strings =
        SelectSeq(
            SeqOf([i \in 1..Len(d.strings) |->
                <<d.strings[i][1],
                  [d.strings[i][2] EXCEPT
                      !.localizations = ShiftRemove(@, language)]>>]),
            LAMBDA e : e[2].localizations # <<>>)]

\* the source language is removed like any other
remove_trimmed_any(d, language) ==
    IF language = "" THEN Fail(d, "InvalidLanguage")
    ELSE IF ~language_exists(d, language) THEN Fail(d, "LanguageMissing")
    ELSE Persist(without_language(d, language), None)

\* remove_language from `let language = trimmed.to_string()` on
remove_trimmed(d, language) ==
    IF language = "" THEN Fail(d, "InvalidLanguage")
    ELSE IF language = d.source_language THEN Fail(d, "CannotRemoveSourceLanguage")
    ELSE IF ~language_exists(d, language) THEN Fail(d, "LanguageMissing")
    ELSE Persist(without_language(d, language), None)

remove_language(d, language) == remove_trimmed(d, trim(language))

\* shift_remove(old_language) and insert(new_language, localization) in every
\* entry that has old_language
renamed_language(d, old_language, new_language) ==
    [d EXCEPT !.strings =
        SeqOf([i \in 1..Len(d.strings) |->
            <<d.strings[i][1],
              IF ContainsKey(d.strings[i][2].localizations, old_language)
              THEN [d.strings[i][2] EXCEPT !.localizations =
                        MapInsert(ShiftRemove(@, old_language), new_language,
                                  MapGet(d.strings[i][2].localizations, old_language))]
              ELSE d.strings[i][2]>>])]

\* the catalog is consulted before the two codes are compared
update_trimmed_checking_first(d, old_language, new_language) ==
    IF old_language = "" \/ new_language = "" THEN Fail(d, "InvalidLanguage")
    ELSE IF old_language = d.source_language
         THEN Fail(d, "CannotRenameSourceLanguage")
    ELSE IF ~language_exists(d, old_language) THEN Fail(d, "LanguageMissing")
    ELSE IF old_language = new_language THEN Unchanged(d)
    ELSE IF language_exists(d, new_language) THEN Fail(d, "LanguageExists")
    ELSE Persist(renamed_language(d, old_language, new_language), None)

\* update_language once both codes are trimmed
update_trimmed(d, old_language, new_language) ==
    IF old_language = "" \/ new_language = "" THEN Fail(d, "InvalidLanguage")
    ELSE IF old_language = new_language THEN Unchanged(d)
    ELSE IF old_language = d.source_language
         THEN Fail(d, "CannotRenameSourceLanguage")
    ELSE IF ~language_exists(d, old_language) THEN Fail(d, "LanguageMissing")
    ELSE IF language_exists(d, new_language) THEN Fail(d, "LanguageExists")
    ELSE Persist(renamed_language(d, old_language, new_language), None)

update_language(d, old_language, new_language) ==
    update_trimmed(d, trim(old_language), trim(new_language))

\* reload once the file is read: the `?` after from_json_value, then
\* `*self.data.write().await = doc`
reload_parsed(d, parsed) ==
    IF parsed = Err THEN Fail(d, "SerdeFailed")
    ELSE Outcome(parsed[1], None, "", None)

\* a missing file fails read_to_string; bytes that are not JSON fail
\* serde_json::from_str as a JSON value that is no object fails from_json_value
reload(d, disk) ==
    IF disk = None THEN Fail(d, "ReadFailed")
    ELSE reload_parsed(d, normalize_parsed(from_json_value(disk[1])))

\* reading a stored Localization: the cases of a selector, one case (an
\* empty Localization when it is not stored), the scalars of a node
CasesOf(loc, selector) == OrDefault(MapFind(loc.variations, selector), <<>>)

HasCase(loc, selector, case) == ContainsKey(CasesOf(loc, selector), case)

CaseOf(loc, selector, case) ==
    OrDefault(MapFind(CasesOf(loc, selector), case), DefaultLocalization)

ValueOf(node) == unit_field(node.string_unit, "value")

StateOf(node) == unit_field(node.string_unit, "state")

----------------------------------------------------------------------------
(* Bounded inputs                                                          *)

\* nesting depth of the catalogs a store is loaded from
MaxDepth == 3

\* operations of one behaviour of Spec
MaxOps == 2

Languages == {"en", "fr"}

Unit(state, value) == Some(XcStringUnit(state, value))

LeafUnits ==
    { Unit(None, Some("")),
      Unit(Some(" "), Some("X")),
      Unit(Some("new"), None),
      Unit(Some("new"), Some("")) }

RawLeaves == {XcLocalization(u, <<>>, <<>>) : u \in LeafUnits}

FixedLeaf == XcLocalization(Unit(Some("translated"), Some("Y")), <<>>, <<>>)

\* the localizations that nest `inner` one level down: as a case of a
\* plural, device or other selector, alone or beside the rival selector, or
\* inside a substitution
Wraps(inner) ==
    LET V(sel) == <<sel, << <<"one", inner>> >> >>
        S(sel) == <<sel, << <<"other", FixedLeaf>> >> >>
        both == << <<"plural", << <<"one", inner>>, <<"other", FixedLeaf>> >> >> >>
        bare == { [v |-> both, s |-> <<>>],
                  [v |-> <<V("device")>>, s |-> <<>>],
                  [v |-> <<V("size")>>, s |-> <<>>],
                  [v |-> <<V("plural"), S("device")>>, s |-> <<>>],
                  [v |-> <<V("device"), S("plural")>>, s |-> <<>>],
                  [v |-> <<>>,
                   s |-> << <<"n", XcSubstitution(Some(1), Some("%d"), None,
                                       <<V("plural"), S("device")>>)>>,
                            <<"m", XcSubstitution(None, None,
                                       Some(XcStringUnit(Some("new"), Some(""))),
                                       <<>>)>> >>] }
    IN  {XcLocalization(None, sh.s, sh.v) : sh \in bare}
        \cup {XcLocalization(Unit(Some("new"), None), <<>>, v) :
                v \in {both, <<V("device")>>}}

RECURSIVE RawLocs(_)
RawLocs(depth) ==
    IF depth = 0 THEN RawLeaves
    ELSE RawLeaves \cup UNION {Wraps(inner) : inner \in RawLocs(depth - 1)}

\* a parsed, not yet normalized catalog holding localization loc
RawDoc(version, entries) ==
    XcStringsFile(
        << <<"sourceLanguage", JStr("en")>>,
           <<"strings", JObj(<<>>)>>,
           <<"version", JStr(version)>> >>,
        version, None, "en", entries)

RawDocOf(loc) ==
    RawDoc("1.0",
        << <<"a", XcStringEntry(None, None, << <<"en", loc>> >>, None)>> >>)

SpecialRawDocs ==
    { RawDoc(" ", <<>>),
      RawDoc("1.0",
          << <<"a", XcStringEntry(Some("note"), None,
                        << <<"en", XcLocalization(Unit(None, None), <<>>, <<>>)>> >>,
                        None)>>,
             <<"b", XcStringEntry(None, None,
                        << <<"fr", XcLocalization(None,
                                       << <<"n", DefaultSubstitution>> >>,
                                       << <<"plural", <<>> >> >>)>>,
                           <<"en", FixedLeaf>> >>,
                        None)>>,
             <<"c", DefaultEntry>> >>) }

RawDocs(depth) == {RawDocOf(loc) : loc \in RawLocs(depth)} \cup SpecialRawDocs

NoLast == [op |-> "none"]

Procs == {1, 2}

SeqIdle ==
    /\ lock = 0
    /\ pc = [p \in Procs |-> "idle"]
    /\ buf = [p \in Procs |-> None]

\* a store opened with XcStringsStore::load_or_create, without a manager
NoManager ==
    /\ manager = None
    /\ arcs = <<>>
    /\ calls = [p \in Procs |-> None]

----------------------------------------------------------------------------
(* SpecNorm: normalize_strings_file applied twice to a parsed catalog      *)

InitNorm ==
    /\ doc \in RawDocs(MaxDepth)
    /\ file = None
    /\ last = [op |-> "parsed", raw |-> doc, pre |-> doc]
    /\ phase = 0
    /\ SeqIdle
    /\ NoManager

Normalize ==
    /\ phase < 2
    /\ doc' = normalize_strings_file(doc)
    /\ last' = [op |-> "normalize", raw |-> last.raw, pre |-> doc]
    /\ phase' = phase + 1
    /\ UNCHANGED <<file, lock, pc, buf, manager, arcs, calls>>

NextNorm == Normalize

SpecNorm == InitNorm /\ [][NextNorm]_vars

\* C3: the Normalizer is idempotent: normalizing the result of a
\* normalization leaves it unchanged, for every parsed catalog.
C3_NormalizeIdempotent == phase = 2 => doc = last.pre

\* a catalog with "plural" beside "device" and a blank unit three levels down
\* has been normalized twice; the first pass changed it and kept part of it
C3_Witness ==
    /\ phase = 2
    /\ doc = last.pre
    /\ doc # last.raw
    /\ doc.strings # <<>>
    /\ stored_localization(last.raw, "a", "en") # None
    /\ LET loc == stored_localization(last.raw, "a", "en")[1]
       IN  /\ ContainsKey(loc.variations, "plural")
           /\ ContainsKey(loc.variations, "device")
           /\ CaseOf(loc, "plural", "one")
                \in UNION {Wraps(inner) :
                        inner \in Wraps(XcLocalization(Unit(None, Some("")), <<>>, <<>>))}

----------------------------------------------------------------------------
(* Updates                                                                 *)

Absent == <<>>

Clear == <<None>>

Set(x) == <<Some(x)>>

Tri(values) == {Absent, Clear} \cup {Set(x) : x \in values}

Leaf(state, value) == TranslationUpdate(state, value, None, None)

ScalarUpdates == {Leaf(s, v) : s \in Tri({"new", " "}), v \in Tri({"X", ""})}

\* an update of one variation case
CaseUpdates ==
    { Leaf(Absent, Set("X")),
      Leaf(Absent, Clear),
      Leaf(Clear, Clear),
      Leaf(Set("new"), Absent),
      Leaf(Clear, Absent),
      TranslationUpdate(Absent, Set("X"), None,
          Some(<< <<"device", << <<"one", Leaf(Absent, Set("X"))>> >> >> >>)),
      TranslationUpdate(Absent, Absent, None,
          Some(<< <<"device", << <<"one", Leaf(Absent, Set("X"))>> >> >> >>)),
      TranslationUpdate(Absent, Absent, None,
          Some(<< <<"plural", << <<"one", Leaf(Absent, Set("X"))>> >> >> >>)) }

CaseMaps ==
    {<< <<"one", c>> >> : c \in CaseUpdates}
    \cup {<< <<"other", c>> >> :
            c \in {Leaf(Absent, Set("X")), Leaf(Clear, Clear), Leaf(Clear, Absent)}}
    \cup {<< <<"other", Leaf(Absent, Set("X"))>>, <<"one", c>> >> :
            c \in {Leaf(Absent, Set("Z")), Leaf(Clear, Clear)}}

SmallCaseMaps ==
    { << <<"one", Leaf(Absent, Set("X"))>> >>,
      << <<"two", Leaf(Set("new"), Absent)>> >>,
      << <<"one", Leaf(Clear, Clear)>> >>,
      << <<"one", TranslationUpdate(Absent, Absent, None,
            Some(<< <<"device", << <<"one", Leaf(Absent, Set("X"))>> >> >> >>))>> >> }

DeviceCaseMaps ==
    { << <<"one", Leaf(Absent, Set("X"))>> >>,
      << <<"two", Leaf(Set("new"), Absent)>> >> }

VariationUpdates ==
    {<< <<sel, cm>> >> : sel \in {"plural", "device", "size"}, cm \in CaseMaps}
    \cup {<< <<"plural", p>>, <<"device", d>> >> :
            p \in SmallCaseMaps, d \in DeviceCaseMaps}
    \cup {<< <<"device", d>>, <<"plural", p>> >> :
            p \in SmallCaseMaps, d \in DeviceCaseMaps}
    \cup {<<>>}

SubPayloads ==
    {SubstitutionUpdate(sv[1], sv[2], a, f, None) :
        sv \in { <<Absent, Absent>>, <<Absent, Set("X")>>, <<Clear, Clear>>,
                 <<Clear, Absent>> },
        a \in Tri({2}), f \in Tri({"%s"})}
    \cup {SubstitutionUpdate(Absent, Absent, Absent, Absent, Some(v)) :
            v \in { << <<"plural", << <<"one", Leaf(Absent, Set("X"))>> >> >> >>,
                    << <<"device", << <<"two", Leaf(Absent, Set("X"))>> >> >>,
                       <<"plural", << <<"one", Leaf(Clear, Clear)>> >> >> >> }}

SubstitutionUpdates ==
    {<< <<"n", None>> >>, << <<"m", None>> >>, <<>>}
    \cup {<< <<"n", Some(p)>> >> : p \in SubPayloads}
    \cup {<< <<"m", Some(SubstitutionUpdate(Absent, Set("X"), Set(2), Absent, None))>>,
             <<"n", x>> >> :
            x \in {None, Some(SubstitutionUpdate(Absent, Absent, Clear, Absent, None))}}

\* updates that set a variation case or a substitution to the empty value
EmptyValueStates == {Absent, Clear, Set(" "), Set("new")}

EmptyValueUpdates ==
    {TranslationUpdate(Absent, Absent, None,
         Some(<< <<selector, << <<"one", Leaf(state, Set(""))>> >> >> >>)) :
        selector \in {"plural", "device"}, state \in EmptyValueStates}
    \cup {TranslationUpdate(Absent, Absent,
             Some(<< <<"n", Some(SubstitutionUpdate(state, Set(""), a, Absent, None))>> >>),
             None) :
            state \in EmptyValueStates, a \in {Absent, Set(2)}}
    \cup {TranslationUpdate(Absent, Absent, None,
             Some(<< <<"device", << <<"one", Leaf(Set("new"), Set(""))>> >> >>,
                     <<"plural", << <<"one", Leaf(Set("new"), Set(""))>> >> >> >>)),
          TranslationUpdate(Absent, Absent,
             Some(<< <<"n", Some(SubstitutionUpdate(Absent, Set(""), Absent, Absent,
                                                    None))>> >>),
             Some(<< <<"plural", << <<"one", Leaf(Set("new"), Set(""))>> >> >> >>))}

RichUpdates ==
    ScalarUpdates
    \cup EmptyValueUpdates
    \cup {TranslationUpdate(l.state, l.value, None, Some(v)) :
            l \in {Leaf(Absent, Absent), Leaf(Absent, Clear), Leaf(Absent, Set("X"))},
            v \in VariationUpdates}
    \cup {TranslationUpdate(Absent, Absent, Some(su), None) :
            su \in SubstitutionUpdates}
    \cup {TranslationUpdate(Clear, Clear, Some(su), None) :
            su \in { << <<"n", None>> >>,
                     << <<"n", Some(SubstitutionUpdate(Absent, Absent, Clear, Clear,
                                                       None))>> >>,
                     << <<"m", Some(SubstitutionUpdate(Clear, Absent, Absent, Absent,
                                                       None))>> >> }}
    \cup {TranslationUpdate(Absent, Clear, Some(su), Some(v)) :
            su \in { << <<"n", None>> >>,
                     << <<"m", Some(SubstitutionUpdate(Absent, Set("X"), Absent,
                                                       Absent, None))>> >> },
            v \in { << <<"plural", << <<"one", Leaf(Clear, Clear)>> >> >> >>,
                    << <<"device", << <<"two", Leaf(Absent, Set("X"))>> >> >> >> }}

----------------------------------------------------------------------------
(* SpecUpsert: one upsert_translation on a catalog loaded from disk        *)

\* the record of the last call: its arguments, the catalog before it and
\* its outcome
Call(op, key, language, arg, pre, out) ==
    [op |-> op, key |-> key, language |-> language, arg |-> arg, pre |-> pre,
     err |-> out.err, ret |-> out.ret, wrote |-> out.bytes # None]

Loaded(disk) ==
    /\ load_or_create(disk) # Err
    /\ file = disk
    /\ doc = load_or_create(disk)[1]
    /\ last = NoLast
    /\ phase = 0
    /\ SeqIdle
    /\ NoManager

\* the files a store has written: the catalogs it holds after a load
WrittenFiles(depth) ==
    {Some(to_json_value(normalize_strings_file(raw))) : raw \in RawDocs(depth)}

StoredFiles == WrittenFiles(MaxDepth - 1)

InitUpsert == \E disk \in StoredFiles : Loaded(disk)

\* a handler run to completion by a single caller: the catalog it leaves and
\* the file it writes
Handled(call, out) ==
    /\ doc' = out.doc
    /\ file' = IF out.bytes = None THEN file ELSE out.bytes
    /\ last' = call
    /\ phase' = phase + 1
    /\ UNCHANGED <<lock, pc, buf, manager, arcs, calls>>

UpsertRich ==
    /\ phase = 0
    /\ \E update \in RichUpdates :
        \E out \in {upsert_translation(doc, "a", "en", update)} :
            Handled(Call("upsert", "a", "en", update, doc, out), out)

NextUpsert == UpsertRich

SpecUpsert == InitUpsert /\ [][NextUpsert]_vars

----------------------------------------------------------------------------
(* The last call seen from its caller                                      *)

Upserted == last.op = "upsert"

\* the Localization stored for the call's (key, language) before and after
PreLoc == OrDefault(stored_localization(last.pre, last.key, last.language),
                    DefaultLocalization)

PostLoc == OrDefault(stored_localization(doc, last.key, last.language),
                     DefaultLocalization)

SelectorUpdates == OrDefault(last.arg.variations, <<>>)

CaseUpdatesOf(selector) == OrDefault(MapFind(SelectorUpdates, selector), <<>>)

\* the selector/case pairs the update names
Named(selector, case) == ContainsKey(CaseUpdatesOf(selector), case)

\* the stored case with its update merged in, before any validation of the
\* selector set it belongs to
MergedCase(selector, case) ==
    apply_update(CaseOf(PreLoc, selector, case), MapGet(CaseUpdatesOf(selector), case))

\* the update leaves the selector with content: one of its cases is not
\* empty once merged
Introduces(selector) ==
    \E i \in 1..Len(CaseUpdatesOf(selector)) :
        ~localization_is_empty(MergedCase(selector, CaseUpdatesOf(selector)[i][1]))

\* C5: an upsert introducing both "plural" and "device" at the top level stores
\* "plural" with each of its non-empty cases and no "device", whichever comes
\* first in the update; a case under "plural" whose update nests "device" is
\* stored without the nested "device" and with the rest of its content.
C5_PluralWinsOverDevice ==
    Upserted =>
        /\ (Introduces("plural") /\ Introduces("device")) =>
            /\ ~ContainsKey(PostLoc.variations, "device")
            /\ \A i \in 1..Len(CaseUpdatesOf("plural")) :
                LET case == CaseUpdatesOf("plural")[i][1]
                    expected == normalize_localization_inner(
                                    MergedCase("plural", case), NestedUnderPlural)
                IN  IF localization_is_empty(expected)
                    THEN ~HasCase(PostLoc, "plural", case)
                    ELSE /\ HasCase(PostLoc, "plural", case)
                         /\ CaseOf(PostLoc, "plural", case) = expected
        /\ \A i \in 1..Len(CaseUpdatesOf("plural")) :
            LET case == CaseUpdatesOf("plural")[i][1]
                nested == CaseUpdatesOf("plural")[i][2].variations
                merged == MergedCase("plural", case)
                rest == [merged EXCEPT !.variations = ShiftRemove(@, "device")]
            IN  (nested # None /\ ContainsKey(nested[1], "device")) =>
                    IF localization_is_empty(rest)
                    THEN ~HasCase(PostLoc, "plural", case)
                    ELSE /\ HasCase(PostLoc, "plural", case)
                         /\ CaseOf(PostLoc, "plural", case) = rest

\* "device" comes first in the update, which nests "device" under the "plural"
\* case "one"; the case is stored with its earlier content only
C5_Witness ==
    /\ Upserted
    /\ Len(SelectorUpdates) = 2
    /\ SelectorUpdates[1][1] = "device"
    /\ Introduces("plural") /\ Introduces("device")
    /\ Named("plural", "one")
    /\ MapGet(CaseUpdatesOf("plural"), "one").variations # None
    /\ HasCase(PostLoc, "plural", "one")
    /\ CaseOf(PostLoc, "plural", "one").variations = <<>>
    /\ ~ContainsKey(PostLoc.variations, "device")

SubstitutionUpdatesOf == OrDefault(last.arg.substitutions, <<>>)

SubOf(loc, name) == OrDefault(MapFind(loc.substitutions, name), DefaultSubstitution)

\* a scalar the update leaves out is stored as it was; a state left out may
\* become the default state of a node that has a value and had no state
ScalarsKept(pre, post, update) ==
    /\ update.value = Absent => ValueOf(post) = ValueOf(pre)
    /\ update.state = Absent =>
        \/ StateOf(post) = StateOf(pre)
        \/ /\ StateOf(pre) = None /\ ValueOf(post) # None
           /\ StateOf(post) = Some(DEFAULT_TRANSLATION_STATE)

\* the same, but for a blank stored value, which is not stored any more once
\* the node is left without a state
ScalarsKeptUnlessBlank(pre, post, update) ==
    /\ update.value = Absent =>
        \/ ValueOf(post) = ValueOf(pre)
        \/ is_blank(ValueOf(pre)) /\ ValueOf(post) = None /\ StateOf(post) = None
    /\ update.state = Absent =>
        \/ StateOf(post) = StateOf(pre)
        \/ /\ StateOf(pre) = None /\ ValueOf(post) # None
           /\ StateOf(post) = Some(DEFAULT_TRANSLATION_STATE)

SubFieldsKept(pre, post, update) ==
    /\ update.arg_num = Absent => post.arg_num = pre.arg_num
    /\ update.format_specifier = Absent => post.format_specifier = pre.format_specifier

\* the case sits under "device" while the update leaves "plural" with content,
\* so that the whole "device" selector is dropped
DroppedWithDevice(selector) ==
    /\ selector = "device"
    /\ Introduces("plural")
    /\ ~ContainsKey(PostLoc.variations, "device")

C7_ClearValueKeepsState ==
    (Upserted /\ last.arg.value = Clear) =>
        LET got == get_translation(doc, last.key, last.language)
            bare == /\ last.ret.state = None
                    /\ last.ret.variations = <<>>
                    /\ last.ret.substitutions = <<>>
        IN  /\ (got = None) <=> bare
            /\ got # None => got[1].value = None
            /\ ( /\ PreLoc.string_unit = Some(XcStringUnit(Some("translated"), Some("X")))
                 /\ last.arg.state = Absent )
                  => /\ got # None
                     /\ got[1].state = Some("translated")

\* {value "X", state "translated"} alone is stored and the value is cleared:
\* what is left is the state
C7_Witness ==
    /\ Upserted
    /\ last.arg.value = Clear /\ last.arg.state = Absent
    /\ PreLoc = XcLocalization(Some(XcStringUnit(Some("translated"), Some("X"))), <<>>, <<>>)
    /\ PostLoc = XcLocalization(Some(XcStringUnit(Some("translated"), None)), <<>>, <<>>)

\* the selector/case pairs stored before the call that the update does not name
\* are all stored after it with the content they had; with `exclusive`, but
\* for those dropped with "device"
UnnamedCasesKept(exclusive) ==
    \A i \in 1..Len(PreLoc.variations) :
        \A j \in 1..Len(PreLoc.variations[i][2]) :
            LET selector == PreLoc.variations[i][1]
                case == PreLoc.variations[i][2][j][1]
            IN  ~Named(selector, case) =>
                    \/ exclusive /\ DroppedWithDevice(selector)
                    \/ /\ HasCase(PostLoc, selector, case)
                       /\ CaseOf(PostLoc, selector, case) = PreLoc.variations[i][2][j][2]

Merged(stored, field) == IF field = Absent THEN stored ELSE field[1]

\* C9: for each substitution name in the update, an explicit-null entry removes
\* the stored substitution; a payload merges field by field into the stored
\* substitution, or into an empty one when none is stored, and the result is
\* stored unless it is empty; substitutions the update does not name keep
\* their content.
C9_SubstitutionMerge ==
    Upserted =>
        /\ \A i \in 1..Len(SubstitutionUpdatesOf) :
            LET name == SubstitutionUpdatesOf[i][1]
                update == SubstitutionUpdatesOf[i][2]
                pre == SubOf(PreLoc, name)
                post == SubOf(PostLoc, name)
                unit == sanitize_string_unit(
                            XcStringUnit(Merged(StateOf(pre), update[1].state),
                                         Merged(ValueOf(pre), update[1].value)))
            IN  IF update = None
                THEN ~ContainsKey(PostLoc.substitutions, name)
                ELSE /\ post.arg_num = Merged(pre.arg_num, update[1].arg_num)
                     /\ post.format_specifier =
                            Merged(pre.format_specifier, update[1].format_specifier)
                     /\ StateOf(post) = unit.state
                     /\ ValueOf(post) = unit.value
                     /\ ContainsKey(PostLoc.substitutions, name)
                            <=> ~substitution_is_empty(post)
        /\ \A i \in 1..Len(PreLoc.substitutions) :
            LET name == PreLoc.substitutions[i][1]
            IN  ~ContainsKey(SubstitutionUpdatesOf, name) =>
                    /\ ContainsKey(PostLoc.substitutions, name)
                    /\ SubOf(PostLoc, name) = PreLoc.substitutions[i][2]

\* one call removes a stored substitution, another merges a payload into a
\* stored one that keeps one field and changes another
C9_Witness ==
    /\ Upserted
    /\ \E i \in 1..Len(SubstitutionUpdatesOf) :
        LET name == SubstitutionUpdatesOf[i][1]
            update == SubstitutionUpdatesOf[i][2]
        IN  /\ update # None
            /\ ContainsKey(PreLoc.substitutions, name)
            /\ ContainsKey(PostLoc.substitutions, name)
            /\ update[1].format_specifier = Absent
            /\ SubOf(PostLoc, name).format_specifier = SubOf(PreLoc, name).format_specifier
            /\ SubOf(PostLoc, name).format_specifier # None
            /\ update[1].arg_num # Absent
            /\ SubOf(PostLoc, name).arg_num # SubOf(PreLoc, name).arg_num
    /\ \E i \in 1..Len(PreLoc.substitutions) :
        /\ ~ContainsKey(SubstitutionUpdatesOf, PreLoc.substitutions[i][1])
        /\ ContainsKey(PostLoc.substitutions, PreLoc.substitutions[i][1])

----------------------------------------------------------------------------
(* Spec: a store loaded from a file, then mutated by one caller at a time  *)

VariationOf(selector, case, update) == <<selector, << <<case, update>> >> >>

\* localizations that break the plural/device rules one and two levels down
ForbiddenLocs ==
    LET device == << <<"device", << <<"mac", FixedLeaf>> >> >> >>
        deep == XcLocalization(Unit(Some("new"), Some("X")), <<>>, device)
        under(selector) ==
            XcLocalization(None, <<>>, << <<selector, << <<"one", deep>> >> >> >>)
    IN  { XcLocalization(None, <<>>,
              << <<"device", << <<"one", under("size")>> >> >>,
                 <<"plural", << <<"one", deep>>, <<"other", under("device")>> >> >> >>),
          XcLocalization(None,
              << <<"n", XcSubstitution(Some(1), Some("%d"), None,
                            << <<"device", << <<"one", under("plural")>> >> >> >>)>> >>,
              << <<"size", << <<"small", under("device")>> >> >> >>) }

SeqRawDocs ==
    SpecialRawDocs
    \cup {RawDocOf(loc) : loc \in ForbiddenLocs}
    \cup {RawDoc("1.0",
            << <<"b", XcStringEntry(None, None,
                          << <<"fr", FixedLeaf>>, <<"en", loc>> >>, None)>>,
               <<"a", XcStringEntry(None, None, << <<"en", FixedLeaf>> >>, None)>> >>) :
            loc \in ForbiddenLocs}

\* the file is missing, or holds a catalog nobody normalized
SeqFiles == {None} \cup {Some(to_json_value(raw)) : raw \in SeqRawDocs}

SeqKeys == {"a", "b"}

SeqUpdates ==
    { Leaf(Absent, Set("X")),
      Leaf(Set("new"), Set("")),
      Leaf(Clear, Clear),
      TranslationUpdate(Absent, Absent, None,
          Some(<<VariationOf("device", "one", Leaf(Absent, Set("X"))),
                 VariationOf("plural", "one", Leaf(Absent, Set("X")))>>)),
      TranslationUpdate(Absent, Absent, None,
          Some(<<VariationOf("plural", "one",
                    TranslationUpdate(Absent, Set("X"), None,
                        Some(<<VariationOf("device", "mac", Leaf(Absent, Set("X")))>>)))>>)),
      TranslationUpdate(Absent, Absent, None,
          Some(<<VariationOf("device", "one",
                    TranslationUpdate(Absent, Absent, None,
                        Some(<<VariationOf("device", "mac", Leaf(Absent, Set("X"))),
                               VariationOf("size", "small", Leaf(Absent, Set("X")))>>)))>>)),
      TranslationUpdate(Absent, Absent,
          Some(<< <<"n", Some(SubstitutionUpdate(Absent, Absent, Set(1), Absent,
                        Some(<<VariationOf("plural", "one", Leaf(Absent, Set("X"))),
                               VariationOf("device", "one", Leaf(Absent, Set("X")))>>)))>> >>),
          None) }

Init == \E disk \in SeqFiles : Loaded(disk)

Upsert ==
    /\ phase < MaxOps
    /\ \E key \in SeqKeys, language \in Languages, update \in SeqUpdates :
        \E out \in {upsert_translation(doc, key, language, update)} :
            Handled(Call("upsert", key, language, update, doc, out), out)

DeleteTranslation ==
    /\ phase < MaxOps
    /\ \E key \in SeqKeys, language \in Languages :
        \E out \in {delete_translation(doc, key, language)} :
            Handled(Call("delete_translation", key, language, None, doc, out), out)

SetComment ==
    /\ phase < MaxOps
    /\ \E key \in SeqKeys, comment \in {None, Some("note")} :
        \E out \in {set_comment(doc, key, comment)} :
            Handled(Call("set_comment", key, "", comment, doc, out), out)

Next == Upsert \/ DeleteTranslation \/ SetComment

Spec == Init /\ [][Next]_vars

RECURSIVE SelectorsAllowed(_, _)

\* the three rules, for a selector set whose Localization is a case under
\* `parent` ("" at the top), for every case below it and for the selector sets
\* of the substitutions on the way
SelectorsAllowed(loc, parent) ==
    /\ ~(ContainsKey(loc.variations, "plural") /\ ContainsKey(loc.variations, "device"))
    /\ parent \in {"plural", "device"} => ~ContainsKey(loc.variations, "device")
    /\ \A i \in 1..Len(loc.variations) :
        \A j \in 1..Len(loc.variations[i][2]) :
            SelectorsAllowed(loc.variations[i][2][j][2], loc.variations[i][1])
    /\ \A i \in 1..Len(loc.substitutions) :
        SelectorsAllowed(
            XcLocalization(None, <<>>, loc.substitutions[i][2].variations), "")

\* C4: after load and after every successful mutation, every stored
\* Localization has, at every depth, no selector set with both "plural" and
\* "device", no "device" selector in a case under "plural", and none in a case
\* under "device".
C4_SelectorRules ==
    \A i \in 1..Len(doc.strings) :
        \A j \in 1..Len(doc.strings[i][2].localizations) :
            SelectorsAllowed(doc.strings[i][2].localizations[j][2], "")

\* an upsert nested "device" under a "device" case, beside a "size" selector
\* that is stored
C4_Witness ==
    /\ Upserted
    /\ Named("device", "one")
    /\ MapGet(CaseUpdatesOf("device"), "one").variations # None
    /\ ContainsKey(MapGet(CaseUpdatesOf("device"), "one").variations[1], "device")
    /\ HasCase(PostLoc, "device", "one")
    /\ ContainsKey(CaseOf(PostLoc, "device", "one").variations, "size")

\* the keys of `after` are the keys of `before` in their order, less `key` when
\* lost is true, and with `key` last when it is new
OrderKept(before, after, key, lost) ==
    LET old == SelectSeq(before, LAMBDA k : ~(lost /\ k = key))
    IN  after = IF lost \/ \E i \in 1..Len(before) : before[i] = key
                THEN old ELSE Append(old, key)

\* the keys of the "strings" object of the file
FileKeys == MapKeys(MapGet(file[1].m, "strings").m)

FileLanguages(key) ==
    LET entry == MapFind(MapGet(file[1].m, "strings").m, key)
        locs == IF entry = None THEN None ELSE MapFind(entry[1].m, "localizations")
    IN  IF locs = None THEN <<>> ELSE MapKeys(locs[1].m)

LanguagesOf(d, key) ==
    LET entry == MapFind(d.strings, key)
    IN  IF entry = None THEN <<>> ELSE MapKeys(entry[1].localizations)

\* C10: an upsert leaves the keys of the catalog in their order, in memory and
\* in the written file, and a new key comes after every existing key; the
\* languages of the Entry likewise.  A key or language the upsert leaves empty
\* is not stored and takes no place in the order.
C10_OrderKept ==
    Upserted =>
        LET keyLost == ~ContainsKey(doc.strings, last.key)
            languageLost == stored_localization(doc, last.key, last.language) = None
        IN  /\ OrderKept(MapKeys(last.pre.strings), MapKeys(doc.strings), last.key, keyLost)
            /\ FileKeys = MapKeys(doc.strings)
            /\ OrderKept(LanguagesOf(last.pre, last.key), LanguagesOf(doc, last.key),
                         last.language, languageLost)
            /\ FileLanguages(last.key) = LanguagesOf(doc, last.key)

\* an upsert on the first of two keys, for the first of its two languages
C10_Witness ==
    /\ Upserted
    /\ MapKeys(last.pre.strings) = <<"b", "a">>
    /\ MapKeys(doc.strings) = <<"b", "a">>
    /\ last.key = "b" /\ last.language = "fr"
    /\ LanguagesOf(last.pre, "b") = <<"fr", "en">>
    /\ LanguagesOf(doc, "b") = <<"fr", "en">>
    /\ stored_localization(doc, "b", "fr") # stored_localization(last.pre, "b", "fr")

----------------------------------------------------------------------------
(* SpecCatalog: every mutating operation of a store, called one at a time  *)
(* on catalogs with several keys, languages and entry-level fields         *)

EntryOf(comment, locs, should) == XcStringEntry(comment, None, locs, should)

\* a catalog whose source language is `source`
CatalogOf(source, entries) ==
    XcStringsFile(
        << <<"sourceLanguage", JStr(source)>>,
           <<"strings", JObj(<<>>)>>,
           <<"version", JStr("1.0")>> >>,
        "1.0", None, source, entries)

CatalogDocs ==
    { CatalogOf("en",
          << <<"a", EntryOf(Some("note"), << <<"en", FixedLeaf>>, <<"fr", FixedLeaf>> >>,
                            None)>>,
             <<"b", EntryOf(None, << <<"fr", FixedLeaf>> >>, None)>>,
             <<"c", EntryOf(Some("todo"), <<>>, None)>> >>),
      CatalogOf("en",
          << <<"a", EntryOf(Some("note"), << <<"fr", FixedLeaf>> >>, None)>>,
             <<"b", EntryOf(None, << <<"de", FixedLeaf>>, <<"fr", FixedLeaf>> >>,
                            None)>> >>),
      CatalogOf("fr",
          << <<"a", EntryOf(None, << <<"en", FixedLeaf>> >>, Some(FALSE))>> >>) }

\* a catalog with members the document model has no field for, at the top
\* level and inside an entry
UnknownMemberFile ==
    JObj(<< <<"sourceLanguage", JStr("en")>>,
            <<"generator", JStr("tool")>>,
            <<"strings",
              JObj(<< <<"a",
                        JObj(<< <<"comment", JStr("note")>>,
                                <<"isCommentAutoGenerated", JBool(TRUE)>>,
                                <<"localizations",
                                  JObj(<< <<"en", localization_to_json(FixedLeaf)>> >>)>> >>)>> >>)>>,
            <<"version", JStr("1.0")>> >>)

\* a catalog without a version member
NoVersionFile ==
    JObj(<< <<"sourceLanguage", JStr("en")>>,
            <<"strings", JObj(<< <<"a", entry_to_json(EntryOf(None, << <<"en", FixedLeaf>> >>,
                                                        None))>> >>)>> >>)

\* a catalog that starts with its version and carries a formatVersion, valid
\* (a string) or not (a boolean)
VersionFirstFile(formatVersion) ==
    JObj(<< <<"version", JStr("1.0")>>,
            <<"formatVersion", formatVersion>>,
            <<"strings",
              JObj(<< <<"b", entry_to_json(EntryOf(None, << <<"fr", FixedLeaf>> >>,
                                                   None))>> >>)>>,
            <<"tool", JNum(1)>>,
            <<"sourceLanguage", JStr("en")>> >>)

\* catalogs other writers laid out
LayoutFiles ==
    {UnknownMemberFile, NoVersionFile,
     VersionFirstFile(JStr("1.1")), VersionFirstFile(JBool(TRUE))}

\* a missing file, the files a store wrote, files nobody normalized and
\* files other writers laid out
CatalogFiles ==
    {None}
    \cup {Some(json) : json \in LayoutFiles}
    \cup {Some(to_json_value(d)) : d \in CatalogDocs}
    \cup {Some(to_json_value(raw)) : raw \in SpecialRawDocs}

\* the language codes callers pass: blank and padded ones included
LanguageCodes == {"en", "fr", "de", " ", " fr"}

InitCatalog == \E disk \in CatalogFiles : Loaded(disk)

RenameKey ==
    /\ phase < MaxOps
    /\ \E old_key \in {"a", "c"}, new_key \in {"a", "b", "d"} :
        \E out \in {rename_key(doc, old_key, new_key)} :
            Handled(Call("rename_key", old_key, "", new_key, doc, out), out)

DeleteKey ==
    /\ phase < MaxOps
    /\ \E key \in {"a", "d"} :
        \E out \in {delete_key(doc, key)} :
            Handled(Call("delete_key", key, "", None, doc, out), out)

SetExtractionState ==
    /\ phase < MaxOps
    /\ \E key \in {"c"}, state \in {None, Some("manual")} :
        \E out \in {set_extraction_state(doc, key, state)} :
            Handled(Call("set_extraction_state", key, "", state, doc, out), out)

SetShouldTranslate ==
    /\ phase < MaxOps
    /\ \E key \in {"b"}, should_translate \in {None, Some(FALSE)} :
        \E out \in {set_should_translate(doc, key, should_translate)} :
            Handled(Call("set_should_translate", key, "", should_translate, doc, out),
                    out)

AddLanguage ==
    /\ phase < MaxOps
    /\ \E language \in LanguageCodes :
        \E out \in {add_language(doc, language)} :
            Handled(Call("add_language", "", language, None, doc, out), out)

RemoveLanguage ==
    /\ phase < MaxOps
    /\ \E language \in LanguageCodes :
        \E out \in {remove_language(doc, language)} :
            Handled(Call("remove_language", "", language, None, doc, out), out)

UpdateLanguage ==
    /\ phase < MaxOps
    /\ \E old_language \in {"en", "fr", "de", " "},
          new_language \in {"en", "fr", "de", " fr"} :
        \E out \in {update_language(doc, old_language, new_language)} :
            Handled(Call("update_language", "", old_language, new_language, doc, out),
                    out)

Reload ==
    /\ phase < MaxOps
    /\ \E out \in {reload(doc, file)} :
        Handled(Call("reload", "", "", None, doc, out), out)

\* the two reports: handlers under the read lock, nothing is written
ListUntranslated ==
    /\ phase < MaxOps
    /\ \E out \in {Outcome(doc, None, "", list_untranslated(doc))} :
        Handled(Call("list_untranslated", "", "", None, doc, out), out)

GetTranslationPercentages ==
    /\ phase < MaxOps
    /\ \E out \in {Outcome(doc, None, "", get_translation_percentages(doc))} :
        Handled(Call("get_translation_percentages", "", "", None, doc, out), out)

NextCatalog ==
    \/ Upsert \/ DeleteTranslation \/ SetComment
    \/ ListUntranslated \/ GetTranslationPercentages
    \/ RenameKey \/ DeleteKey \/ SetExtractionState \/ SetShouldTranslate
    \/ AddLanguage \/ RemoveLanguage \/ UpdateLanguage \/ Reload

SpecCatalog == InitCatalog /\ [][NextCatalog]_vars

\* the last call was `op`, and it returned Ok
Called(op) == last.op = op

Succeeded(op) == last.op = op /\ last.err = ""

\* C12: rename_key(old, new) with old # new fails with KeyExists when new is a
\* key (whether or not old is one) and with KeyMissing when new is free and
\* old is not a key; otherwise it succeeds, the entry stored under old is
\* stored unchanged under new, old is no longer a key, and the keys are the
\* other keys in their order followed by new.  With old = new it succeeds and
\* the catalog is what it was.
C12_RenameKey ==
    Called("rename_key") =>
        IF last.key = last.arg
        THEN last.err = "" /\ doc = last.pre
        ELSE IF ContainsKey(last.pre.strings, last.arg)
        THEN last.err = "KeyExists"
        ELSE IF ~ContainsKey(last.pre.strings, last.key)
        THEN last.err = "KeyMissing"
        ELSE /\ last.err = ""
             /\ MapFind(doc.strings, last.arg) = MapFind(last.pre.strings, last.key)
             /\ ~ContainsKey(doc.strings, last.key)
             /\ MapKeys(doc.strings) =
                    Append(SelectSeq(MapKeys(last.pre.strings), LAMBDA k : k # last.key),
                           last.arg)

\* the first of three keys was renamed to a new key
C12_Witness ==
    /\ Succeeded("rename_key")
    /\ MapKeys(last.pre.strings) = <<"a", "b", "c">>
    /\ MapKeys(doc.strings) = <<"b", "c", "d">>
    /\ MapGet(doc.strings, "d").localizations # <<>>

\* every Entry but the one under `key` is what it was before the call
OtherEntriesKept(key) ==
    /\ \A i \in 1..Len(last.pre.strings) :
        last.pre.strings[i][1] # key =>
            MapFind(doc.strings, last.pre.strings[i][1]) = Some(last.pre.strings[i][2])
    /\ \A i \in 1..Len(doc.strings) :
        doc.strings[i][1] # key => ContainsKey(last.pre.strings, doc.strings[i][1])

\* C13: delete_translation(key, language) fails with TranslationMissing when
\* the Entry or its Localization for the language is not stored; otherwise it
\* succeeds, the Localization is gone, the Entry's other Localizations and
\* the other Entries are what they were, and the Entry is gone when no
\* Localization is left for the key.
C13_DeleteTranslation ==
    Called("delete_translation") =>
        IF stored_localization(last.pre, last.key, last.language) = None
        THEN last.err = "TranslationMissing"
        ELSE /\ last.err = ""
             /\ stored_localization(doc, last.key, last.language) = None
             /\ OtherEntriesKept(last.key)
             /\ LET before == MapGet(last.pre.strings, last.key)
                     rest == ShiftRemove(before.localizations, last.language)
                 IN  IF rest = <<>>
                     THEN ~ContainsKey(doc.strings, last.key)
                     ELSE MapFind(doc.strings, last.key) =
                            Some([before EXCEPT !.localizations = rest])

\* the only Localization of an Entry that carries a comment was deleted
C13_Witness ==
    /\ Succeeded("delete_translation")
    /\ MapGet(last.pre.strings, last.key).comment # None
    /\ Len(MapGet(last.pre.strings, last.key).localizations) = 1
    /\ Len(last.pre.strings) = 2
    /\ Len(doc.strings) = 1

\* the Entry carries a comment, an extractionState or a shouldTranslate value
Carries(entry) ==
    entry.comment # None \/ entry.extraction_state # None
        \/ entry.should_translate # None

\* the Entry stored under `key` before the call, with the entry-level field
\* the call set
FieldsAfter(key, entry) ==
    IF key # last.key THEN entry
    ELSE CASE last.op = "set_comment" -> [entry EXCEPT !.comment = last.arg]
           [] last.op = "set_extraction_state" ->
                [entry EXCEPT !.extraction_state = last.arg]
           [] last.op = "set_should_translate" ->
                [entry EXCEPT !.should_translate = last.arg]
           [] OTHER -> entry

\* C14: a successful mutation other than delete_key and rename_key removes an
\* Entry only if the Entry carries no comment, no extractionState and no
\* shouldTranslate value, and every Entry it leaves with zero Localizations
\* carries one of them.
C14_PrunedIffBare ==
    (last.op \notin {"none", "delete_key", "rename_key"} /\ last.err = "") =>
        /\ \A i \in 1..Len(doc.strings) :
            doc.strings[i][2].localizations = <<>> => Carries(doc.strings[i][2])
        /\ \A i \in 1..Len(last.pre.strings) :
            ~ContainsKey(doc.strings, last.pre.strings[i][1]) =>
                ~Carries(FieldsAfter(last.pre.strings[i][1], last.pre.strings[i][2]))

\* every Localization stored before the call is stored unchanged after it
LocalizationsKept ==
    \A i \in 1..Len(last.pre.strings) :
        \A j \in 1..Len(last.pre.strings[i][2].localizations) :
            stored_localization(doc, last.pre.strings[i][1],
                                last.pre.strings[i][2].localizations[j][1])
                = Some(last.pre.strings[i][2].localizations[j][2])

\* what add_language is to do when it is called for `code`
AddLanguageContract(code) ==
    IF trim(last.language) = "" THEN last.err = "InvalidLanguage"
    ELSE IF code = last.pre.source_language \/ code \in entry_languages(last.pre)
    THEN last.err = "LanguageExists"
    ELSE /\ last.err = ""
         /\ MapKeys(doc.strings) = MapKeys(last.pre.strings)
         /\ \A i \in 1..Len(last.pre.strings) :
                get_translation(doc, last.pre.strings[i][1], code) =
                    Some([state |-> Some("needs-translation"), value |-> None,
                          substitutions |-> <<>>, variations |-> <<>>])
         /\ LocalizationsKept

\* C15 as worded: the contract holds for the code as the caller passed it.
C15_AddLanguage_AsWorded ==
    Called("add_language") => AddLanguageContract(last.language)

\* C15: add_language(code) fails with InvalidLanguage when code is blank;
\* with code standing for the argument less its surrounding whitespace, it
\* fails with LanguageExists when code is the source language or a language
\* of some Entry; otherwise it succeeds, every Entry stored before the call
\* has a Localization for code with state "needs-translation", no value, no
\* variations and no substitutions, and every Localization stored before the
\* call is unchanged.
C15_AddLanguage ==
    Called("add_language") => AddLanguageContract(trim(last.language))

\* a padded code was added to a catalog whose Entry had another language
C15_Witness ==
    /\ Succeeded("add_language")
    /\ last.language = " fr"
    /\ stored_localization(last.pre, "a", "en") # None
    /\ stored_localization(last.pre, "a", "fr") = None
    /\ stored_localization(doc, "a", "fr") = Some(placeholder_localization)

\* every Localization stored before the call for a language other than
\* `code` is stored unchanged after it
OtherLanguagesKept(code) ==
    \A i \in 1..Len(last.pre.strings) :
        \A j \in 1..Len(last.pre.strings[i][2].localizations) :
            last.pre.strings[i][2].localizations[j][1] # code =>
                stored_localization(doc, last.pre.strings[i][1],
                                    last.pre.strings[i][2].localizations[j][1])
                    = Some(last.pre.strings[i][2].localizations[j][2])

\* what remove_language is to do when it is called for `code`
RemoveLanguageContract(code) ==
    IF code = last.pre.source_language THEN last.err = "CannotRemoveSourceLanguage"
    ELSE IF code \notin entry_languages(last.pre) THEN last.err = "LanguageMissing"
    ELSE /\ last.err = ""
         /\ code \notin entry_languages(doc)
         /\ OtherLanguagesKept(code)
         /\ \A i \in 1..Len(doc.strings) :
                /\ doc.strings[i][2].localizations # <<>>
                /\ ContainsKey(last.pre.strings, doc.strings[i][1])

C17_RenameLanguage ==
    ( /\ Called("update_language")
      /\ trim(last.language) # "" /\ trim(last.arg) # ""
      /\ trim(last.language) # trim(last.arg) ) =>
        LET old == trim(last.language)
            new == trim(last.arg)
        IN  IF old = last.pre.source_language
            THEN last.err = "CannotRenameSourceLanguage"
            ELSE IF old \notin entry_languages(last.pre)
            THEN last.err = "LanguageMissing"
            ELSE IF new = last.pre.source_language \/ new \in entry_languages(last.pre)
            THEN last.err = "LanguageExists"
            ELSE /\ last.err = ""
                 /\ old \notin entry_languages(doc)
                 /\ \A i \in 1..Len(last.pre.strings) :
                        stored_localization(last.pre, last.pre.strings[i][1], old) # None
                        => stored_localization(doc, last.pre.strings[i][1], new)
                            = stored_localization(last.pre, last.pre.strings[i][1], old)

\* C18: no operation of the store changes sourceLanguage, and after every
\* operation list_languages() contains it.
C18_SourceLanguageKept ==
    [][ /\ doc'.source_language = doc.source_language
        /\ doc'.source_language \in list_languages(doc') ]_vars

\* removing the source language was refused on a catalog no Entry of which
\* has a Localization for it
C18_Witness ==
    /\ Called("remove_language")
    /\ last.language = doc.source_language
    /\ last.err = "CannotRemoveSourceLanguage"
    /\ doc.strings # <<>>
    /\ doc.source_language \notin entry_languages(doc)

----------------------------------------------------------------------------
(* SpecConc: two callers of one store.  A handler takes the write lock     *)
(* (self.data.write().await), changes and serializes the catalog, gives    *)
(* the lock back (drop(doc)) and only then awaits fs::write.               *)

ConcFiles ==
    { None,
      Some(to_json_value(
          RawDoc("1.0",
              << <<"a", XcStringEntry(None, None, << <<"en", FixedLeaf>> >>, None)>> >>))) }

ConcUpdates == {Leaf(Absent, Set("X")), Leaf(Clear, Clear)}

\* what the handlers can do to the catalog once they hold the lock
ConcCalls(d) ==
    {upsert_translation(d, key, "en", update) : key \in SeqKeys, update \in ConcUpdates}
    \cup {delete_translation(d, key, "en") : key \in SeqKeys}
    \cup {set_comment(d, "a", Some("note"))}

InitConc ==
    /\ \E disk \in ConcFiles :
        /\ file = disk
        /\ doc = load_or_create(disk)[1]
    /\ last = [op |-> "none", failed |-> FALSE]
    /\ phase = 0
    /\ SeqIdle
    /\ NoManager

\* let mut doc = self.data.write().await
Begin(p) ==
    /\ phase < MaxOps
    /\ pc[p] = "idle"
    /\ lock = 0
    /\ lock' = p
    /\ pc' = [pc EXCEPT ![p] = "locked"]
    /\ phase' = phase + 1
    /\ UNCHANGED <<doc, file, last, buf, manager, arcs, calls>>

\* the handler's body up to drop(doc), or up to its early return
Mutate(p) ==
    /\ pc[p] = "locked"
    /\ \E out \in ConcCalls(doc) :
        /\ doc' = out.doc
        /\ buf' = [buf EXCEPT ![p] = out.bytes]
        /\ pc' = [pc EXCEPT ![p] = IF out.bytes = None THEN "idle" ELSE "write"]
        /\ last' = [last EXCEPT !.failed = @ \/ out.err # ""]
    /\ lock' = 0
    /\ UNCHANGED <<file, phase, manager, arcs, calls>>

\* fs::write(&self.path, serialized).await
Write(p) ==
    /\ pc[p] = "write"
    /\ file' = buf[p]
    /\ buf' = [buf EXCEPT ![p] = None]
    /\ pc' = [pc EXCEPT ![p] = "idle"]
    /\ UNCHANGED <<doc, last, phase, lock, manager, arcs, calls>>

NextConc == \E p \in Procs : Begin(p) \/ Mutate(p) \/ Write(p)

SpecConc == InitConc /\ [][NextConc]_vars

\* C1: a mutation holds the store's lock from the moment it starts changing
\* the catalog until its bytes are on disk, and no other mutation reads or
\* changes the catalog or writes the file in between.
C1_LockHeldThroughWrite ==
    \A p \in Procs :
        pc[p] = "write" =>
            /\ lock = p
            /\ \A q \in Procs \ {p} : pc[q] = "idle"

\* C2: once no operation is in progress after mutations that all succeeded,
\* the file holds the serialization of the catalog in memory.
C2_FileMatchesMemory ==
    ( /\ \A p \in Procs : pc[p] = "idle"
      /\ phase > 0
      /\ ~last.failed )
        => file = Some(to_json_value(doc))

----------------------------------------------------------------------------
(* SpecManager: two callers of store_for on one XcStringsStoreManager.  The *)
(* search root is /root; a.xcstrings is a file other programs rewrite and  *)
(* delete, b.xcstrings never exists.                                       *)

\* store_for calls and rewrites of the file in one behaviour
MaxCalls == 3

DefaultPath == "/root/a.xcstrings"

\* Option<&str> arguments of store_for
PathArgs ==
    {None, Some("a.xcstrings"), Some("/root/a.xcstrings"),
     Some("sub/../a.xcstrings"), Some("b.xcstrings")}

\* an absolute path is taken as it is, another is joined to the search root
resolve_path(raw) ==
    CASE raw = "a.xcstrings" -> "/root/a.xcstrings"
      [] raw = "sub/../a.xcstrings" -> "/root/sub/../a.xcstrings"
      [] raw = "b.xcstrings" -> "/root/b.xcstrings"
      [] OTHER -> raw

\* std::fs::canonicalize(&path).unwrap_or(path): canonicalize fails while the
\* file does not exist
normalize_path(path, disk) ==
    IF path = "/root/sub/../a.xcstrings" /\ disk # None
    THEN "/root/a.xcstrings" ELSE path

ResolvedPaths ==
    {"/root/a.xcstrings", "/root/sub/../a.xcstrings", "/root/b.xcstrings"}

\* what the file system holds at a resolved path
content_at(path, disk) == IF path = "/root/b.xcstrings" THEN None ELSE disk

\* resolved_path of store_for, None for PathRequired
resolved_path(m, raw, disk) ==
    IF raw = None
    THEN IF m.default_path = None THEN None
         ELSE Some(normalize_path(m.default_path[1], disk))
    ELSE Some(normalize_path(resolve_path(raw[1]), disk))

XcStringsStore(path, data) == [path |-> path, data |-> data]

\* the manager after XcStringsStoreManager::new: 0 stands for no entry of
\* the HashMap, n > 0 for the n-th Arc allocated
XcStringsStoreManager(default_path, stores) ==
    [default_path |-> default_path, stores |-> stores]

NoStores == [path \in ResolvedPaths |-> 0]

\* a store_for call of one caller: its argument, the resolved path, the Arc
\* it allocated, what it returned, whether it hit the cache and the catalog
\* the cached store had then
StoreForCall(raw, path, store, ret, err, hit, was) ==
    [raw |-> raw, path |-> path, store |-> store, ret |-> ret, err |-> err,
     hit |-> hit, was |-> was]

NoCall == StoreForCall(None, "", 0, None, "", FALSE, None)

\* the entry is overwritten by the caller's own Arc
insert_replacing(stores, path, store) == [stores EXCEPT ![path] = store]

\* stores.entry(resolved_path).or_insert_with(|| store.clone())
or_insert_with(stores, path, store) ==
    IF stores[path] = 0 THEN [stores EXCEPT ![path] = store] ELSE stores

\* the cached store is handed out as it is
serve_cached(data, disk) == data

\* let _ = store.reload().await: the catalog the cached store holds next
reload_on_hit(data, disk) == reload(data, disk).doc

ManagerFiles ==
    ConcFiles
    \cup { Some(JNull),
           Some(to_json_value(
               CatalogOf("fr", << <<"a", EntryOf(None, << <<"en", FixedLeaf>> >>,
                                                 None)>> >>))) }

\* XcStringsStoreManager::new: with a default path the default store is
\* loaded at once, and new fails when that load fails
InitManager ==
    /\ file \in ManagerFiles
    /\ \/ /\ manager = XcStringsStoreManager(None, NoStores)
          /\ arcs = <<>>
       \/ /\ load_or_create(file) # Err
          /\ manager = XcStringsStoreManager(Some(DefaultPath),
                            [NoStores EXCEPT ![DefaultPath] = 1])
          /\ arcs = <<XcStringsStore(DefaultPath, load_or_create(file)[1])>>
    /\ calls = [p \in Procs |-> NoCall]
    /\ doc = None
    /\ last = NoLast
    /\ phase = 0
    /\ SeqIdle

\* store_for(None) on a manager without a default path
StoreForNoPath(p) ==
    /\ phase < MaxCalls
    /\ pc[p] = "idle"
    /\ manager.default_path = None
    /\ calls' = [calls EXCEPT ![p] =
            StoreForCall(None, "", 0, None, "PathRequired", FALSE, None)]
    /\ phase' = phase + 1
    /\ UNCHANGED <<doc, file, last, lock, pc, buf, manager, arcs>>

\* store_for finds the resolved path in the map and, holding the read lock
\* of the map, starts store.reload(): fs::read_to_string(&self.path)
StoreForHit(p) ==
    /\ phase < MaxCalls
    /\ pc[p] = "idle"
    /\ \E raw \in PathArgs :
        \E path \in ResolvedPaths :
            /\ resolved_path(manager, raw, file) = Some(path)
            /\ manager.stores[path] # 0
            /\ calls' = [calls EXCEPT ![p] =
                    StoreForCall(raw, path, manager.stores[path], None, "", TRUE, None)]
            /\ buf' = [buf EXCEPT ![p] = content_at(path, file)]
    /\ pc' = [pc EXCEPT ![p] = "reload"]
    /\ phase' = phase + 1
    /\ UNCHANGED <<doc, file, last, lock, manager, arcs>>

\* the rest of reload() on what was read, its result dropped, and
\* return Ok(store.clone())
FinishReload(p) ==
    /\ pc[p] = "reload"
    /\ \E data \in {reload_on_hit(arcs[calls[p].store].data, buf[p])} :
        arcs' = [arcs EXCEPT ![calls[p].store].data = data]
    /\ calls' = [calls EXCEPT ![p].ret = Some(calls[p].store),
                              ![p].was = Some(arcs[calls[p].store].data)]
    /\ buf' = [buf EXCEPT ![p] = None]
    /\ pc' = [pc EXCEPT ![p] = "idle"]
    /\ UNCHANGED <<doc, file, last, phase, lock, manager>>

\* store_for does not find the path and leaves the read lock to load
StoreForMiss(p) ==
    /\ phase < MaxCalls
    /\ pc[p] = "idle"
    /\ \E raw \in PathArgs :
        \E path \in ResolvedPaths :
            /\ resolved_path(manager, raw, file) = Some(path)
            /\ manager.stores[path] = 0
            /\ calls' = [calls EXCEPT ![p] =
                    StoreForCall(raw, path, 0, None, "", FALSE, None)]
    /\ pc' = [pc EXCEPT ![p] = "load"]
    /\ phase' = phase + 1
    /\ UNCHANGED <<doc, file, last, lock, buf, manager, arcs>>

\* Arc::new(XcStringsStore::load_or_create(&resolved_path).await?)
Load(p) ==
    /\ pc[p] = "load"
    /\ \E loaded \in {load_or_create(content_at(calls[p].path, file))} :
        IF loaded = Err
        THEN /\ calls' = [calls EXCEPT ![p].err = "SerdeFailed"]
             /\ pc' = [pc EXCEPT ![p] = "idle"]
             /\ UNCHANGED arcs
        ELSE /\ arcs' = Append(arcs, XcStringsStore(calls[p].path, loaded[1]))
             /\ calls' = [calls EXCEPT ![p].store = Len(arcs) + 1]
             /\ pc' = [pc EXCEPT ![p] = "insert"]
    /\ UNCHANGED <<doc, file, last, phase, lock, buf, manager>>

\* the write lock of the map, which waits for the callers that hold its read
\* lock, entry().or_insert_with() and the Arc that is returned
Insert(p) ==
    /\ pc[p] = "insert"
    /\ \A q \in Procs : pc[q] # "reload"
    /\ \E stores \in {or_insert_with(manager.stores, calls[p].path, calls[p].store)} :
        /\ manager' = [manager EXCEPT !.stores = stores]
        /\ calls' = [calls EXCEPT ![p].ret = Some(stores[calls[p].path])]
    /\ pc' = [pc EXCEPT ![p] = "idle"]
    /\ UNCHANGED <<doc, file, last, phase, lock, buf, arcs>>

\* another program rewrites or deletes a.xcstrings
EditFile ==
    /\ phase < MaxCalls
    /\ file' \in ManagerFiles \ {file}
    /\ phase' = phase + 1
    /\ UNCHANGED <<doc, last, lock, pc, buf, manager, arcs, calls>>

NextManager ==
    \/ \E p \in Procs :
        \/ StoreForNoPath(p) \/ StoreForHit(p) \/ FinishReload(p)
        \/ StoreForMiss(p) \/ Load(p) \/ Insert(p)
    \/ EditFile

SpecManager == InitManager /\ [][NextManager]_vars

\* C19: the Arc a store_for call returned is the one the map holds for the
\* path the call resolved, and the map never binds a path to another Arc: all
\* successful calls that resolved one path return the same instance, first
\* accesses that run concurrently included.
C19_OneStorePerPath ==
    /\ [](\A p \in Procs :
            calls[p].ret # None => manager.stores[calls[p].path] = calls[p].ret[1])
    /\ [][\A path \in ResolvedPaths :
            manager.stores[path] # 0 => manager'.stores[path] = manager.stores[path]]_vars

\* both callers missed the cache, each allocated a store, and both returned
\* the same one
C19_Witness ==
    /\ \A p \in Procs : ~calls[p].hit /\ calls[p].store # 0 /\ calls[p].ret # None
    /\ calls[1].path = calls[2].path
    /\ calls[1].store # calls[2].store
    /\ calls[1].ret = calls[2].ret

\* C20: a store_for call that finds its path in the map reads the file,
\* succeeds and returns the cached store; the store then holds the normalized
\* catalog of the file as the call read it when the file could be read and
\* parsed, and the catalog it held before when it could not.
C20_HitReloads ==
    [][\A p \in Procs :
        /\ (pc[p] = "idle" /\ pc'[p] = "reload") =>
                buf'[p] = content_at(calls'[p].path, file)
        /\ (pc[p] = "reload" /\ pc'[p] = "idle") =>
            /\ calls'[p].err = ""
            /\ calls'[p].ret = Some(manager.stores[calls'[p].path])
            /\ LET id == manager.stores[calls'[p].path]
                   parsed == IF buf[p] = None THEN Err
                             ELSE normalize_parsed(from_json_value(buf[p][1]))
               IN  arcs'[id].data = IF parsed = Err THEN arcs[id].data ELSE parsed[1]]_vars

\* a call found the store in the map and the reload replaced its catalog
C20_Witness ==
    \E p \in Procs :
        /\ calls[p].hit
        /\ calls[p].ret # None
        /\ calls[p].was # Some(arcs[calls[p].ret[1]].data)
        /\ file # None
        /\ load_or_create(file) = Ok(arcs[calls[p].ret[1]].data)

----------------------------------------------------------------------------
(* SpecSanitize: normalize_strings_file on catalogs that hold one          *)
(* StringUnit, for every combination of value and state and at every place *)
(* a StringUnit is stored                                                  *)

UnitFields == {None, Some(""), Some(" "), Some("X")}

UnitStates == {None, Some(""), Some(" "), Some("new")}

\* a Localization that holds `unitOpt` and nothing else: as its own unit, as
\* the unit of a plural or device case, or as the unit of a substitution
Place(position, unitOpt) ==
    LET leaf == XcLocalization(unitOpt, <<>>, <<>>)
    IN  CASE position = "unit" -> leaf
          [] position = "plural" ->
                XcLocalization(None, <<>>, << <<"plural", << <<"one", leaf>> >> >> >>)
          [] position = "device" ->
                XcLocalization(None, <<>>, << <<"device", << <<"mac", leaf>> >> >> >>)
          [] position = "substitution" ->
                XcLocalization(None,
                    << <<"n", XcSubstitution(None, None, unitOpt, <<>>)>> >>, <<>>)

Positions == {"unit", "plural", "device", "substitution"}

InitSanitize ==
    /\ \E position \in Positions, state \in UnitStates, value \in UnitFields :
        doc = RawDocOf(Place(position, Unit(state, value)))
    /\ file = None
    /\ last = [op |-> "parsed", raw |-> doc, pre |-> doc]
    /\ phase = 0
    /\ SeqIdle
    /\ NoManager

SpecSanitize == InitSanitize /\ [][NextNorm]_vars

\* the catalog that holds `unit` at `position` once it is normalized, when
\* `unit` is what sanitization makes of the StringUnit: a unit without content
\* leaves nothing to store
Stored(position, unit) ==
    IF unit.value = None /\ unit.state = None
    THEN RawDoc("1.0", <<>>)
    ELSE RawDocOf(Place(position, Some(unit)))

\* sanitization as worded: blank fields are absent, then the state defaults
SanitizedAsWorded(state, value) ==
    LET v == IF value = None \/ value[1] \in {"", " "} THEN None ELSE value
        s == IF state = None \/ state[1] \in {"", " "} THEN None ELSE state
    IN  XcStringUnit(IF v # None /\ s = None THEN Some("translated") ELSE s, v)

\* sanitization with a blank value kept beside a state field that is present
SanitizedKeepingValue(state, value) ==
    LET v == IF (value = None \/ value[1] \in {"", " "}) /\ state = None
             THEN None ELSE value
        s == IF state = None \/ state[1] \in {"", " "} THEN None ELSE state
    IN  XcStringUnit(IF v # None /\ s = None THEN Some("translated") ELSE s, v)

\* C21 as worded: for every value and state, the normalized catalog holds
\* the StringUnit with blank fields absent and the state defaulted to
\* "translated" when only a value is left.
C21_Sanitize_AsWorded ==
    phase > 0 =>
        \A position \in Positions, state \in UnitStates, value \in UnitFields :
            last.raw = RawDocOf(Place(position, Unit(state, value)))
                => doc = Stored(position, SanitizedAsWorded(state, value))

\* C21: for every value and state, sanitization makes a blank state absent,
\* makes a blank value absent only when the state field is absent (a blank
\* value beside a state, blank or not, is kept as it is), and then sets the
\* state to "translated" when a value is present and the state is absent.
C21_Sanitize ==
    phase > 0 =>
        \A position \in Positions, state \in UnitStates, value \in UnitFields :
            last.raw = RawDocOf(Place(position, Unit(state, value)))
                => doc = Stored(position, SanitizedKeepingValue(state, value))

\* a plural case with a whitespace-only value beside a whitespace-only state
\* was normalized: the value is kept and the state is "translated"
C21_Witness ==
    /\ phase > 0
    /\ last.raw = RawDocOf(Place("plural", Unit(Some(" "), Some(" "))))
    /\ doc = RawDocOf(Place("plural", Unit(Some("translated"), Some(" "))))

----------------------------------------------------------------------------
(* Empty values set by an upsert                                           *)

\* the Localization of the call's (key, language) in the written file
FileLoc == OrDefault(stored_localization(load_or_create(file)[1], last.key, last.language),
                     DefaultLocalization)

\* the variation case and the substitution in the value the call returned
ReturnedCase(selector, case) ==
    MapFind(OrDefault(MapFind(last.ret.variations, selector), <<>>), case)

ReturnedSub(name) == MapFind(last.ret.substitutions, name)

\* a node stored, returned and persisted with the empty value and `state`
CaseKeptEmpty(selector, case, state) ==
    /\ HasCase(PostLoc, selector, case)
    /\ ValueOf(CaseOf(PostLoc, selector, case)) = Some("")
    /\ StateOf(CaseOf(PostLoc, selector, case)) = state
    /\ ReturnedCase(selector, case) # None
    /\ ReturnedCase(selector, case)[1].value = Some("")
    /\ ReturnedCase(selector, case)[1].state = state
    /\ HasCase(FileLoc, selector, case)
    /\ ValueOf(CaseOf(FileLoc, selector, case)) = Some("")
    /\ StateOf(CaseOf(FileLoc, selector, case)) = state

SubKeptEmpty(name, state) ==
    /\ ContainsKey(PostLoc.substitutions, name)
    /\ ValueOf(SubOf(PostLoc, name)) = Some("")
    /\ StateOf(SubOf(PostLoc, name)) = state
    /\ ReturnedSub(name) # None
    /\ ReturnedSub(name)[1].value = Some("")
    /\ ReturnedSub(name)[1].state = state
    /\ ContainsKey(FileLoc.substitutions, name)
    /\ ValueOf(SubOf(FileLoc, name)) = Some("")
    /\ StateOf(SubOf(FileLoc, name)) = state

CaseGone(selector, case) ==
    /\ ~HasCase(PostLoc, selector, case)
    /\ ReturnedCase(selector, case) = None
    /\ ~HasCase(FileLoc, selector, case)

SubGone(name) ==
    /\ ~ContainsKey(PostLoc.substitutions, name)
    /\ ReturnedSub(name) = None
    /\ ~ContainsKey(FileLoc.substitutions, name)

\* the update sets the node to the empty value
SetsEmpty(update) == update.value = Set("")

\* the "device" selector of the update is not stored: "plural" is
DeviceGivesWay(selector) ==
    selector = "device" /\ ContainsKey(PostLoc.variations, "plural")

\* the update gives the node a value and nothing else
OnlyValue(update) ==
    update.state = Absent /\ update.variations = None /\ update.substitutions = None

OnlySubValue(update) ==
    /\ update.state = Absent /\ update.variations = None
    /\ update.arg_num = Absent /\ update.format_specifier = Absent

\* C22 as worded: a variation case or a substitution that an upsert sets to
\* the empty value together with a non-blank state is stored, returned and
\* persisted with value "" and that state; set to the empty value with no
\* state, by an update that gives it nothing else, it is dropped.
C22_EmptyValue_AsWorded ==
    Upserted =>
        /\ \A i \in 1..Len(SelectorUpdates) :
            \A j \in 1..Len(SelectorUpdates[i][2]) :
                LET selector == SelectorUpdates[i][1]
                    case == SelectorUpdates[i][2][j][1]
                    update == SelectorUpdates[i][2][j][2]
                IN  SetsEmpty(update) =>
                        /\ (update.state # Absent /\ ~is_blank(update.state[1])) =>
                                CaseKeptEmpty(selector, case, update.state[1])
                        /\ (update.state = Absent /\ OnlyValue(update)) =>
                                CaseGone(selector, case)
        /\ \A i \in 1..Len(SubstitutionUpdatesOf) :
            LET name == SubstitutionUpdatesOf[i][1]
                update == SubstitutionUpdatesOf[i][2]
            IN  (update # None /\ SetsEmpty(update[1])) =>
                    /\ (update[1].state # Absent /\ ~is_blank(update[1].state[1])) =>
                            SubKeptEmpty(name, update[1].state[1])
                    /\ (update[1].state = Absent /\ OnlySubValue(update[1])) =>
                            SubGone(name)

\* C22: a variation case or a substitution that an upsert sets to the empty
\* value is stored, returned and persisted with value "" and its state when
\* the state the update gives it, or the stored state the update leaves in
\* place, is not blank, except for a case under a "device" selector that gives
\* way to "plural"; left without any state it has neither value nor state,
\* and it is dropped unless it has other content.
C22_EmptyValue ==
    Upserted =>
        /\ \A i \in 1..Len(SelectorUpdates) :
            \A j \in 1..Len(SelectorUpdates[i][2]) :
                LET selector == SelectorUpdates[i][1]
                    case == SelectorUpdates[i][2][j][1]
                    update == SelectorUpdates[i][2][j][2]
                    pre == CaseOf(PreLoc, selector, case)
                    state == Merged(StateOf(pre), update.state)
                IN  SetsEmpty(update) =>
                        /\ ~is_blank(state) =>
                            IF DeviceGivesWay(selector)
                            THEN ~ContainsKey(PostLoc.variations, selector)
                            ELSE CaseKeptEmpty(selector, case, state)
                        /\ state = None =>
                            IF pre.variations = <<>> /\ pre.substitutions = <<>>
                            THEN CaseGone(selector, case)
                            ELSE /\ ValueOf(CaseOf(PostLoc, selector, case)) = None
                                 /\ StateOf(CaseOf(PostLoc, selector, case)) = None
        /\ \A i \in 1..Len(SubstitutionUpdatesOf) :
            LET name == SubstitutionUpdatesOf[i][1]
                update == SubstitutionUpdatesOf[i][2]
                pre == SubOf(PreLoc, name)
                state == Merged(StateOf(pre), update[1].state)
                post == SubOf(PostLoc, name)
            IN  (update # None /\ SetsEmpty(update[1])) =>
                    /\ ~is_blank(state) => SubKeptEmpty(name, state)
                    /\ state = None =>
                        IF /\ post.arg_num = None /\ post.format_specifier = None
                           /\ pre.variations = <<>>
                        THEN SubGone(name)
                        ELSE /\ ContainsKey(PostLoc.substitutions, name)
                             /\ ValueOf(post) = None
                             /\ StateOf(post) = None

\* one call gives a new plural case the empty value and the state "new" and
\* the case is stored with both; another gives a new substitution the empty
\* value alone and the substitution is not stored
C22_Witness ==
    /\ Upserted
    /\ Named("plural", "one")
    /\ ~HasCase(PreLoc, "plural", "one")
    /\ MapGet(CaseUpdatesOf("plural"), "one").value = Set("")
    /\ MapGet(CaseUpdatesOf("plural"), "one").state = Set("new")
    /\ CaseKeptEmpty("plural", "one", Some("new"))
    /\ ContainsKey(SubstitutionUpdatesOf, "n")
    /\ ~ContainsKey(PreLoc.substitutions, "n")
    /\ MapGet(SubstitutionUpdatesOf, "n") # None
    /\ MapGet(SubstitutionUpdatesOf, "n")[1].value = Set("")
    /\ MapGet(SubstitutionUpdatesOf, "n")[1].state = Absent
    /\ SubGone("n")

----------------------------------------------------------------------------
(* The catalog a store holds is normalized                                 *)

RECURSIVE LocalizationNormalized(_)
RECURSIVE VariationsNormalized(_)

\* a StringUnit has content, and a state whenever it has a value
UnitNormalized(unitOpt) ==
    unitOpt # None =>
        /\ unitOpt[1].value # None \/ unitOpt[1].state # None
        /\ unitOpt[1].value # None => unitOpt[1].state # None

\* every selector has a case and every case is a normalized Localization
VariationsNormalized(variations) ==
    \A i \in 1..Len(variations) :
        /\ variations[i][2] # <<>>
        /\ \A j \in 1..Len(variations[i][2]) :
            LocalizationNormalized(variations[i][2][j][2])

SubstitutionNormalized(sub) ==
    /\ \/ sub.string_unit # None
       \/ sub.variations # <<>>
       \/ sub.arg_num # None
       \/ sub.format_specifier # None
    /\ UnitNormalized(sub.string_unit)
    /\ VariationsNormalized(sub.variations)

LocalizationNormalized(loc) ==
    /\ \/ loc.string_unit # None
       \/ loc.variations # <<>>
       \/ loc.substitutions # <<>>
    /\ UnitNormalized(loc.string_unit)
    /\ VariationsNormalized(loc.variations)
    /\ \A i \in 1..Len(loc.substitutions) :
        SubstitutionNormalized(loc.substitutions[i][2])

CatalogNormalized(d) ==
    \A i \in 1..Len(d.strings) :
        \A j \in 1..Len(d.strings[i][2].localizations) :
            LocalizationNormalized(d.strings[i][2].localizations[j][2])

\* C23: after the load and after every mutating operation, successful or not,
\* the catalog in memory is normalized: no empty Localization at any depth, no
\* empty Substitution, no variation selector without a case, no StringUnit
\* without content and no StringUnit with a value and no state.
C23_CatalogNormalized == CatalogNormalized(doc)

\* an upsert cleared the only content of a Localization, which is not stored
\* any more, in a catalog loaded from a file that was not normalized
C23_Witness ==
    /\ Succeeded("upsert")
    /\ stored_localization(last.pre, last.key, last.language) # None
    /\ stored_localization(doc, last.key, last.language) = None
    /\ Len(doc.strings) > 0
    /\ CatalogNormalized(doc)

----------------------------------------------------------------------------
(* SpecRoundTrip: a file is loaded and the catalog is serialized as loaded *)

RECURSIVE Reordered(_)
RECURSIVE WithoutNulls(_)

\* the same JSON value with the members of every object in reverse order
Reordered(json) ==
    IF json.t # "obj" THEN json
    ELSE JObj(SeqOf([i \in 1..Len(json.m) |->
                <<json.m[Len(json.m) + 1 - i][1],
                  Reordered(json.m[Len(json.m) + 1 - i][2])>>]))

\* the same JSON value without the members that are null
NotNull(member) == member[2].t # "null"

WithoutNulls(json) ==
    IF json.t # "obj" THEN json
    ELSE JObj(SeqOf([i \in 1..Len(SelectSeq(json.m, NotNull)) |->
                <<SelectSeq(json.m, NotNull)[i][1],
                  WithoutNulls(SelectSeq(json.m, NotNull)[i][2])>>]))

\* depth of the catalogs of the round trip
MaxFileDepth == 1

\* the files a store wrote
DialectFiles == {to_json_value(normalize_strings_file(raw)) : raw \in RawDocs(MaxFileDepth)}

\* the files a store wrote, the same content as other writers lay it out, and
\* catalogs nobody normalized
RoundTripFiles ==
    DialectFiles
    \cup {Reordered(json) : json \in DialectFiles}
    \cup {WithoutNulls(json) : json \in DialectFiles}
    \cup {to_json_value(raw) : raw \in RawDocs(MaxFileDepth)}
    \cup LayoutFiles

InitRoundTrip == \E json \in RoundTripFiles : Loaded(Some(json))

\* doc.to_json_value() of the catalog as loaded; `parsed` is the catalog
\* before load_or_create normalized it
Serialize ==
    /\ phase = 0
    /\ last' = [op |-> "serialize",
                parsed |-> from_json_value(file[1])[1],
                out |-> to_json_value(doc)]
    /\ phase' = 1
    /\ UNCHANGED <<doc, file, lock, pc, buf, manager, arcs, calls>>

NextRoundTrip == Serialize

SpecRoundTrip == InitRoundTrip /\ [][NextRoundTrip]_vars

Reserialized == last.op = "serialize"

\* normalization pruned nothing of the loaded file
NothingPruned == last.parsed = doc

\* C24: serializing a loaded document without mutating it reproduces the
\* loaded file's content unchanged (same members, same values, same member
\* order at every nesting level), at least when normalization pruned nothing.
C24_RoundTrip == (Reserialized /\ NothingPruned) => last.out = file[1]

\* the round trip of the files a store wrote itself
C24_DialectRoundTrip ==
    (Reserialized /\ file[1] \in DialectFiles) => last.out = file[1]

----------------------------------------------------------------------------
(* The top-level members of the written file                               *)

\* a mutating operation wrote the file
Mutated ==
    /\ last.op \notin {"none", "reload", "serialize", "format", "list_untranslated",
                       "get_translation_percentages"}
    /\ last.wrote

\* the top-level members of the file the catalog was loaded from, kept in
\* XcStringsFile.raw, and those of the file the call wrote
LoadedMembers == last.pre.raw

WrittenMembers == file[1].m

KnownMembers == {"version", "formatVersion", "sourceLanguage", "strings"}

\* the names of `members` that `others` has too, in the order of `members`
CommonNames(members, others) ==
    SelectSeq(MapKeys(members), LAMBDA name : ContainsKey(others, name))

\* C25: after any mutation the top-level members of the written file that the
\* loaded file had are in the same order as in the loaded file; version,
\* sourceLanguage and strings are written, and every member the model does not
\* know is written with the value it had.
C25_TopLevelOrderKept ==
    Mutated =>
        /\ CommonNames(WrittenMembers, LoadedMembers)
            = CommonNames(LoadedMembers, WrittenMembers)
        /\ \A name \in {"version", "sourceLanguage", "strings"} :
            ContainsKey(WrittenMembers, name)
        /\ \A i \in 1..Len(LoadedMembers) :
            LoadedMembers[i][1] \notin KnownMembers =>
                MapFind(WrittenMembers, LoadedMembers[i][1]) = Some(LoadedMembers[i][2])

\* a catalog loaded from a file that starts with its version, has an unknown
\* member between strings and sourceLanguage, and is written with a new key
C25_Witness ==
    /\ Mutated
    /\ MapKeys(LoadedMembers)
        = <<"version", "formatVersion", "strings", "tool", "sourceLanguage">>
    /\ MapKeys(WrittenMembers) = MapKeys(LoadedMembers)
    /\ MapGet(WrittenMembers, "strings") # MapGet(LoadedMembers, "strings")

----------------------------------------------------------------------------
(* Catalog Writer: apple_json_formatter::to_apple_format                   *)
(* The output is the sequence of the pieces the writer emits: one piece    *)
(* per punctuation character, space and line feed, and one per scalar.     *)

\* an array keeps its elements in m like the members of an object, under the
\* empty name
JArr(items) ==
    [t |-> "arr", s |-> "", n |-> 0,
     m |-> SeqOf([i \in 1..Len(items) |-> <<"", items[i]>>])]

\* escape_string over the strings of the model: the quote and the backslash
\* are the characters of these strings that it rewrites
escape_string(s) ==
    CASE s = "a\"b" -> "a\\\"b"
      [] s = "a\\b" -> "a\\\\b"
      [] OTHER -> s

\* write!(writer, "\"{}\"", escape_string(s))
Quoted(s) == "\"" \o escape_string(s) \o "\""

write_indent_four(level) == SeqOf([i \in 1..(4 * level) |-> " "])

\* for _ in 0..level { write!(writer, "  ") }
write_indent(level) == SeqOf([i \in 1..(2 * level) |-> " "])

RECURSIVE write_value(_, _)
RECURSIVE write_elements(_, _, _)
RECURSIVE write_entries(_, _, _)

\* the loop of write_array from element i on
write_elements(array, i, indent_level) ==
    IF i > Len(array) THEN <<>>
    ELSE write_indent(indent_level + 1)
         \o write_value(array[i][2], indent_level + 1)
         \o (IF i < Len(array) THEN <<",">> ELSE <<>>)
         \o <<"\n">>
         \o write_elements(array, i + 1, indent_level)

write_array(array, indent_level) ==
    IF array = <<>> THEN <<"[", "]">>
    ELSE <<"[", "\n">>
         \o write_elements(array, 1, indent_level)
         \o write_indent(indent_level)
         \o <<"]">>

\* the loop of write_object from entry i on
write_entries(obj, i, indent_level) ==
    IF i > Len(obj) THEN <<>>
    ELSE write_indent(indent_level + 1)
         \o <<Quoted(obj[i][1]), " ", ":", " ">>
         \o write_value(obj[i][2], indent_level + 1)
         \o (IF i < Len(obj) THEN <<",">> ELSE <<>>)
         \o <<"\n">>
         \o write_entries(obj, i + 1, indent_level)

write_object(obj, indent_level) ==
    IF obj = <<>> THEN <<"{", "}">>
    ELSE <<"{", "\n">>
         \o write_entries(obj, 1, indent_level)
         \o write_indent(indent_level)
         \o <<"}">>

write_value(value, indent_level) ==
    CASE value.t = "null" -> <<"null">>
      [] value.t = "bool" -> <<value.s>>
      [] value.t = "num" -> <<ToString(value.n)>>
      [] value.t = "str" -> <<Quoted(value.s)>>
      [] value.t = "arr" -> write_array(value.m, indent_level)
      [] value.t = "obj" -> write_object(value.m, indent_level)

to_apple_format(value) == write_value(value, 0)

\* nesting depth of the values handed to the writer
MaxNesting == 2

FlatValues == {JNull, JNum(1), JStr("a\"b"), JObj(<<>>), JArr(<<>>)}

\* objects and arrays of one or two members; the two names of an object are
\* not in alphabetical order
RECURSIVE JsonValues(_)
JsonValues(depth) ==
    IF depth = 0 THEN FlatValues
    ELSE FlatValues
         \cup {JObj(<< <<"b", v>> >>) : v \in JsonValues(depth - 1)}
         \cup {JArr(<<v>>) : v \in JsonValues(depth - 1)}
         \cup {JObj(<< <<"b", v>>, <<"a", w>> >>) :
                 v \in JsonValues(depth - 1), w \in FlatValues}
         \cup {JArr(<<v, w>>) : v \in FlatValues, w \in JsonValues(depth - 1)}

InitWriter ==
    /\ \E value \in JsonValues(MaxNesting) : file = Some(value)
    /\ doc = DefaultFile
    /\ last = NoLast
    /\ phase = 0
    /\ SeqIdle
    /\ NoManager

Format ==
    /\ phase = 0
    /\ last' = [op |-> "format", out |-> to_apple_format(file[1])]
    /\ phase' = 1
    /\ UNCHANGED <<doc, file, lock, pc, buf, manager, arcs, calls>>

NextWriter == Format

SpecWriter == InitWriter /\ [][NextWriter]_vars

Formatted == last.op = "format"

Brackets == {"{", "}", "[", "]"}

\* how deep the piece after position i is nested
Depth(out, i) ==
    Cardinality({j \in 1..i : out[j] \in {"{", "["}})
    - Cardinality({j \in 1..i : out[j] \in {"}", "]"}})

\* the number of spaces that follow position i
SpacesAfter(out, i) ==
    CHOOSE k \in 0..Len(out) :
        /\ \A j \in 1..k : i + j <= Len(out) /\ out[i + j] = " "
        /\ i + k + 1 > Len(out) \/ out[i + k + 1] # " "

RECURSIVE Count(_, _)
RECURSIVE CountIn(_, _, _)

\* how many values of `value`, itself included, satisfy `what`: "obj", "arr",
\* "emptyobj", "emptyarr", or how many members its objects have ("member")
Hit(value, what) ==
    CASE what = "obj" -> value.t = "obj"
      [] what = "arr" -> value.t = "arr"
      [] what = "emptyobj" -> value.t = "obj" /\ value.m = <<>>
      [] what = "emptyarr" -> value.t = "arr" /\ value.m = <<>>
      [] what = "member" -> FALSE

CountIn(members, i, what) ==
    IF i > Len(members) THEN 0
    ELSE CountIn(members, i + 1, what)
         + (IF what = "member" THEN 1 ELSE 0)
         + Count(members[i][2], what)

Count(value, what) ==
    (IF Hit(value, what) THEN 1 ELSE 0)
    + (IF value.t = "obj" THEN CountIn(value.m, 1, what)
       ELSE IF value.t = "arr" /\ what # "member" THEN CountIn(value.m, 1, what)
       ELSE IF value.t = "arr" THEN CountIn(value.m, 1, what) - Len(value.m)
       ELSE 0)

RECURSIVE MemberNames(_)
RECURSIVE MemberNamesIn(_, _, _)

\* the member names of the objects of `value` in the order of the mappings,
\* each followed by the names inside its value
MemberNamesIn(members, i, named) ==
    IF i > Len(members) THEN <<>>
    ELSE (IF named THEN <<Quoted(members[i][1])>> ELSE <<>>)
         \o MemberNames(members[i][2])
         \o MemberNamesIn(members, i + 1, named)

MemberNames(value) ==
    IF value.t = "obj" THEN MemberNamesIn(value.m, 1, TRUE)
    ELSE IF value.t = "arr" THEN MemberNamesIn(value.m, 1, FALSE)
    ELSE <<>>

\* the pieces written two places before a colon, in the order of the output
NamesWritten(out) ==
    SelectSeq(SeqOf([i \in 1..Len(out) |->
                        IF i + 2 <= Len(out) /\ out[i + 2] = ":" THEN out[i] ELSE ":"]),
              LAMBDA piece : piece # ":")

Pairs(out, open, close) ==
    Cardinality({i \in 1..(Len(out) - 1) : out[i] = open /\ out[i + 1] = close})

Pieces(out, piece) == Cardinality({i \in 1..Len(out) : out[i] = piece})

ColonSpacing(out) ==
    \A i \in 1..Len(out) :
        out[i] = ":" =>
            /\ i > 2 /\ i + 2 <= Len(out)
            /\ out[i - 1] = " " /\ out[i - 2] \notin Brackets \cup {" ", "\n", ","}
            /\ out[i + 1] = " " /\ out[i + 2] \notin {" ", "\n", ",", "}", "]"}

Indentation(out) ==
    \A i \in 1..Len(out) :
        out[i] = "\n" =>
            SpacesAfter(out, i)
                = 2 * (IF out[i + SpacesAfter(out, i) + 1] \in {"}", "]"}
                       THEN Depth(out, i) - 1 ELSE Depth(out, i))

EmptyOnOneLine(out, value) ==
    /\ Pieces(out, "{") = Count(value, "obj")
    /\ Pieces(out, "[") = Count(value, "arr")
    /\ Pairs(out, "{", "}") = Count(value, "emptyobj")
    /\ Pairs(out, "[", "]") = Count(value, "emptyarr")
    /\ \A i \in 1..(Len(out) - 1) :
        out[i] \in {"{", "["} => out[i + 1] \in {"}", "]", "\n"}

\* C26: the writer's output for any JSON value writes each object member as
\* "name" : value with one space on each side of the colon, indents every
\* line by 2 spaces per nesting level, writes an empty object as {} and an
\* empty array as [] on one line, and writes the members of every object in
\* the order of the mapping.
C26_AppleFormat ==
    Formatted =>
        /\ ColonSpacing(last.out)
        /\ Pieces(last.out, ":") = Count(file[1], "member")
        /\ Indentation(last.out)
        /\ EmptyOnOneLine(last.out, file[1])
        /\ NamesWritten(last.out) = MemberNames(file[1])

\* an object whose members "b" and "a" are written in that order, the first
\* one an object that holds an empty object under a name indented by 4 spaces
C26_Witness ==
    /\ Formatted
    /\ file[1] = JObj(<< <<"b", JObj(<< <<"b", JObj(<<>>)>> >>)>>, <<"a", JArr(<<>>)>> >>)
    /\ NamesWritten(last.out) = <<"\"b\"", "\"b\"", "\"a\"">>
    /\ Pairs(last.out, "{", "}") = 1
    /\ Pairs(last.out, "[", "]") = 1
    /\ SpacesAfter(last.out, 10) = 4

----------------------------------------------------------------------------
(* The three entry fields                                                  *)

Setters == {"set_comment", "set_extraction_state", "set_should_translate"}

\* the Entry of the call's key before and after the call, an empty Entry when
\* none is stored
PreEntry == OrDefault(MapFind(last.pre.strings, last.key), DefaultEntry)

PostEntry == OrDefault(MapFind(doc.strings, last.key), DefaultEntry)

\* the Entry the call should leave: the one before with the field set
EntrySet(entry, op, value) ==
    CASE op = "set_comment" -> [entry EXCEPT !.comment = value]
      [] op = "set_extraction_state" -> [entry EXCEPT !.extraction_state = value]
      [] op = "set_should_translate" -> [entry EXCEPT !.should_translate = value]

\* C27: set_comment, set_extraction_state and set_should_translate succeed; with
\* a value, the Entry of the key is stored after the call, created when it was
\* missing, with the field set to the value; without a value the field is
\* cleared; in both cases the other fields and the Localizations of the Entry,
\* and the other Entries, are what they were.
C27_EntryFields ==
    last.op \in Setters =>
        /\ last.err = ""
        /\ last.arg # None => ContainsKey(doc.strings, last.key)
        /\ PostEntry = EntrySet(PreEntry, last.op, last.arg)
        /\ OtherEntriesKept(last.key)

\* an extraction state was set on a key with no Entry, and the Entry is
\* stored with that field alone
C27_Witness ==
    /\ Succeeded("set_extraction_state")
    /\ ~ContainsKey(last.pre.strings, last.key)
    /\ last.arg = Some("manual")
    /\ MapFind(doc.strings, last.key)
        = Some([DefaultEntry EXCEPT !.extraction_state = Some("manual")])
    /\ Len(doc.strings) > 1

----------------------------------------------------------------------------
(* The two reports                                                         *)

\* the languages of the catalog: the source language and every language of
\* an Entry
CatalogLanguages ==
    {doc.source_language}
    \cup {lang \in LanguageCodes \cup Languages :
            \E i \in 1..Len(doc.strings) : ContainsKey(doc.strings[i][2].localizations, lang)}

\* the Entry at position i has a value for the language that is not empty
Translated(i, lang) ==
    \E j \in 1..Len(doc.strings[i][2].localizations) :
        /\ doc.strings[i][2].localizations[j][1] = lang
        /\ doc.strings[i][2].localizations[j][2].string_unit # None
        /\ doc.strings[i][2].localizations[j][2].string_unit[1].value # None
        /\ doc.strings[i][2].localizations[j][2].string_unit[1].value # Some("")

\* the keys the report lists for a language: none when it has no entry for it
Listed(lang) ==
    IF \E pair \in last.ret : pair[1] = lang
    THEN (CHOOSE pair \in last.ret : pair[1] = lang)[2]
    ELSE <<>>

Translatable == {i \in 1..Len(doc.strings) : doc.strings[i][2].should_translate # Some(FALSE)}

\* C29: get_translation_percentages() reports, for each language of the
\* catalog, 100 times the number of Entries whose shouldTranslate is not false
\* and that have a non-empty value for the language, divided by the number of
\* Entries whose shouldTranslate is not false, and nothing at all when no Entry
\* is to be translated.
C29_Percentages ==
    Called("get_translation_percentages") =>
        /\ last.err = ""
        /\ IF Translatable = {} THEN last.ret = {}
           ELSE /\ {pair[1] : pair \in last.ret} = CatalogLanguages
                /\ Cardinality(last.ret) = Cardinality(CatalogLanguages)
                /\ \A pair \in last.ret :
                    pair[2][1] * Cardinality(Translatable)
                        = pair[2][2] * 100
                            * Cardinality({i \in Translatable : Translated(i, pair[1])})

\* of two Entries the one marked shouldTranslate=false has the only "en"
\* value: "en" stands at 0 and "fr" at 100
C29_Witness ==
    /\ Called("get_translation_percentages")
    /\ Len(doc.strings) = 2
    /\ Cardinality(Translatable) = 1
    /\ \E i \in 1..2 : i \notin Translatable /\ Translated(i, "en")
    /\ last.ret = {<<"en", <<0, 1>> >>, <<"fr", <<100, 1>> >>}

----------------------------------------------------------------------------
(* SpecLive: callers of the manager and of one store, and the three locks  *)
(* they take: stores and discovered_paths of the manager, data of the      *)
(* store.  Here `lock` holds the three tokio RwLocks, `manager` tells      *)
(* whether the store is in the manager's map, `calls` names the call each  *)
(* caller is in and `pc` its position in it.  A tokio RwLock serves its    *)
(* waiters first come, first served.                                       *)

LiveProcs == {1, 2, 3}

\* a RwLock: the callers holding a read guard, the one holding the write
\* guard (0: none) and the waiters in order of arrival
FreeLock == [readers |-> {}, writer |-> 0, queue |-> <<>>]

\* lock.read().await / lock.write().await up to the await
enqueue(rw, p, mode) == [rw EXCEPT !.queue = Append(@, <<p, mode>>)]

\* the first waiter can be served: no writer, and no reader if it wants to write
can_grant(rw) ==
    /\ rw.queue # <<>>
    /\ rw.writer = 0
    /\ Head(rw.queue)[2] = "write" => rw.readers = {}

granted(rw) ==
    IF Head(rw.queue)[2] = "write"
    THEN [rw EXCEPT !.writer = Head(rw.queue)[1], !.queue = Tail(@)]
    ELSE [rw EXCEPT !.readers = @ \cup {Head(rw.queue)[1]}, !.queue = Tail(@)]

\* the guard is never given back
release_never(rw, p) == rw

\* the guard of p is dropped (nothing changes if p holds none)
release(rw, p) ==
    [rw EXCEPT !.readers = @ \ {p}, !.writer = IF @ = p THEN 0 ELSE @]

\* where a caller waits for a lock: the lock and the position once served
Awaits ==
    [await_stores_read |-> <<"stores", "lookup">>,
     await_stores_write |-> <<"stores", "insert">>,
     await_reload_write |-> <<"data", "reload_assign">>,
     await_data_write |-> <<"data", "mutate">>,
     await_data_read |-> <<"data", "read">>,
     await_discovered_write |-> <<"discovered", "publish">>,
     await_discovered_read |-> <<"discovered", "paths">>]

InitLive ==
    /\ lock = [stores |-> FreeLock, data |-> FreeLock, discovered |-> FreeLock]
    /\ pc = [p \in LiveProcs |-> "idle"]
    /\ calls = [p \in LiveProcs |-> "none"]
    /\ manager \in BOOLEAN
    /\ doc = DefaultFile
    /\ file = None
    /\ last = NoLast
    /\ phase = 0
    /\ buf = <<>>
    /\ arcs = <<>>

\* caller p goes on to position `next` in call `name`
Goes(p, name, next) ==
    /\ pc' = [pc EXCEPT ![p] = next]
    /\ calls' = [calls EXCEPT ![p] = name]
    /\ UNCHANGED <<doc, file, last, phase, buf, arcs>>

Returns(p) == Goes(p, "none", "idle")

\* store_for: let stores = self.stores.read().await
StartStoreFor(p) ==
    /\ pc[p] = "idle"
    /\ lock' = [lock EXCEPT !.stores = enqueue(@, p, "read")]
    /\ Goes(p, "store_for", "await_stores_read")
    /\ UNCHANGED manager

\* a mutating store operation: let mut doc = self.data.write().await
StartMutation(p) ==
    /\ pc[p] = "idle"
    /\ lock' = [lock EXCEPT !.data = enqueue(@, p, "write")]
    /\ Goes(p, "mutation", "await_data_write")
    /\ UNCHANGED manager

\* a reading store operation: let doc = self.data.read().await
StartRead(p) ==
    /\ pc[p] = "idle"
    /\ lock' = [lock EXCEPT !.data = enqueue(@, p, "read")]
    /\ Goes(p, "read", "await_data_read")
    /\ UNCHANGED manager

\* reload called on the store: it starts by reading the file
StartReload(p) ==
    /\ pc[p] = "idle"
    /\ Goes(p, "reload", "reload_read")
    /\ UNCHANGED <<lock, manager>>

\* refresh_discovered_paths: the directory scan runs first, under no lock
StartRefresh(p) ==
    /\ pc[p] = "idle"
    /\ Goes(p, "refresh_discovered_paths", "scan")
    /\ UNCHANGED <<lock, manager>>

\* available_paths: self.discovered_paths.read().await
StartAvailablePaths(p) ==
    /\ pc[p] = "idle"
    /\ lock' = [lock EXCEPT !.discovered = enqueue(@, p, "read")]
    /\ Goes(p, "available_paths", "await_discovered_read")
    /\ UNCHANGED manager

\* the lock serves p, the first of its waiters
Grant(p) ==
    /\ pc[p] \in DOMAIN Awaits
    /\ can_grant(lock[Awaits[pc[p]][1]])
    /\ Head(lock[Awaits[pc[p]][1]].queue)[1] = p
    /\ lock' = [lock EXCEPT ![Awaits[pc[p]][1]] = granted(@)]
    /\ Goes(p, calls[p], Awaits[pc[p]][2])
    /\ UNCHANGED manager

\* stores.get(&resolved_path) under the read guard: on a hit the store is
\* reloaded with the guard held, on a miss the guard is dropped with the block
Lookup(p) ==
    /\ pc[p] = "lookup"
    /\ IF manager
       THEN /\ Goes(p, calls[p], "reload_read")
            /\ UNCHANGED lock
       ELSE /\ lock' = [lock EXCEPT !.stores = release(@, p)]
            /\ Goes(p, calls[p], "load")
    /\ UNCHANGED manager

\* reload: fs::read_to_string and the parse; on an error the call returns
\* (store_for ignores it and drops its read guard), else self.data.write().await
ReloadRead(p) ==
    /\ pc[p] = "reload_read"
    /\ \/ /\ lock' = [lock EXCEPT !.data = enqueue(@, p, "write")]
          /\ Goes(p, calls[p], "await_reload_write")
       \/ /\ lock' = [lock EXCEPT !.stores = release(@, p)]
          /\ Returns(p)
    /\ UNCHANGED manager

\* *self.data.write().await = doc; then store_for drops its read guard
ReloadAssign(p) ==
    /\ pc[p] = "reload_assign"
    /\ lock' = [lock EXCEPT !.data = release(@, p), !.stores = release(@, p)]
    /\ Returns(p)
    /\ UNCHANGED manager

\* XcStringsStore::load_or_create(&resolved_path).await?: on an error the call
\* returns, else self.stores.write().await
LoadFile(p) ==
    /\ pc[p] = "load"
    /\ \/ /\ lock' = [lock EXCEPT !.stores = enqueue(@, p, "write")]
          /\ Goes(p, calls[p], "await_stores_write")
       \/ /\ UNCHANGED lock
          /\ Returns(p)
    /\ UNCHANGED manager

\* stores.entry(resolved_path).or_insert_with(...), the guard dropped on return
InsertStore(p) ==
    /\ pc[p] = "insert"
    /\ manager' = TRUE
    /\ lock' = [lock EXCEPT !.stores = release(@, p)]
    /\ Returns(p)

\* the handler under the write guard: it returns an error and drops the guard,
\* or it reaches drop(doc) and goes on to fs::write
MutateDoc(p) ==
    /\ pc[p] = "mutate"
    /\ lock' = [lock EXCEPT !.data = release(@, p)]
    /\ \/ Goes(p, calls[p], "write_file")
       \/ Returns(p)
    /\ UNCHANGED manager

\* fs::write(&self.path, serialized).await? completes
WriteFile(p) ==
    /\ pc[p] = "write_file"
    /\ Returns(p)
    /\ UNCHANGED <<lock, manager>>

\* the handler under the read guard
ReadDoc(p) ==
    /\ pc[p] = "read"
    /\ lock' = [lock EXCEPT !.data = release(@, p)]
    /\ Returns(p)
    /\ UNCHANGED manager

\* task::spawn_blocking(discover_xcstrings).await: on an error the call
\* returns, else self.discovered_paths.write().await
Scan(p) ==
    /\ pc[p] = "scan"
    /\ \/ /\ lock' = [lock EXCEPT !.discovered = enqueue(@, p, "write")]
          /\ Goes(p, calls[p], "await_discovered_write")
       \/ /\ UNCHANGED lock
          /\ Returns(p)
    /\ UNCHANGED manager

\* *guard = discovered.clone()
Publish(p) ==
    /\ pc[p] = "publish"
    /\ lock' = [lock EXCEPT !.discovered = release(@, p)]
    /\ Returns(p)
    /\ UNCHANGED manager

\* self.discovered_paths.read().await.clone()
ReadPaths(p) ==
    /\ pc[p] = "paths"
    /\ lock' = [lock EXCEPT !.discovered = release(@, p)]
    /\ Returns(p)
    /\ UNCHANGED manager

\* the steps of a call under way: the lock serving the caller, the caller
\* running on, its file I/O completing
Run(p) ==
    \/ Grant(p) \/ Lookup(p) \/ ReloadRead(p) \/ ReloadAssign(p) \/ LoadFile(p)
    \/ InsertStore(p) \/ MutateDoc(p) \/ WriteFile(p) \/ ReadDoc(p)
    \/ Scan(p) \/ Publish(p) \/ ReadPaths(p)

NextLive ==
    \E p \in LiveProcs :
        \/ StartStoreFor(p) \/ StartMutation(p) \/ StartRead(p)
        \/ StartReload(p) \/ StartRefresh(p) \/ StartAvailablePaths(p)
        \/ Grant(p) \/ Lookup(p) \/ ReloadRead(p) \/ ReloadAssign(p) \/ LoadFile(p)
        \/ InsertStore(p) \/ MutateDoc(p) \/ WriteFile(p) \/ ReadDoc(p)
        \/ Scan(p) \/ Publish(p) \/ ReadPaths(p)

\* lock holders keep running, file I/O completes and the locks serve their
\* first waiter: every enabled step of a call under way is eventually taken
SpecLive == InitLive /\ [][NextLive]_vars /\ \A p \in LiveProcs : WF_vars(Run(p))

\* C30: with any number of calls of the store manager and of the store, by
\* concurrent callers, every call that was started eventually returns.
C30_EveryCallReturns ==
    \A p \in LiveProcs : (pc[p] # "idle") ~> (pc[p] = "idle")

\* a caller of store_for holds the read guard of stores and waits for the
\* write guard of data, which a mutation holds, while a second store_for
\* waits for the write guard of stores
C30_Witness ==
    \E p, q, r \in LiveProcs :
        /\ p \in lock.stores.readers /\ pc[p] = "await_reload_write"
        /\ lock.data.writer = q /\ pc[q] = "mutate"
        /\ pc[r] = "await_stores_write"

----------------------------------------------------------------------------
(* SpecDisk: one caller of a store whose file cannot always be written.    *)
(* Here `buf` tells whether fs::write succeeds: the disk fills up or the   *)
(* file loses its write permission, and recovers, outside the program.     *)

\* the failure is swallowed: the call returns Ok
fs_write_reporting_ok(out, writable) ==
    IF out.bytes = None \/ writable THEN out
    ELSE Outcome(out.doc, None, "", out.ret)

\* fs::write(&self.path, serialized).await?, after drop(doc): an io::Error
\* becomes StoreError::ReadFailed, the catalog in memory stays as the handler
\* left it and the file keeps its old content
fs_write(out, writable) ==
    IF out.bytes = None \/ writable THEN out
    ELSE Outcome(out.doc, None, "ReadFailed", None)

InitDisk ==
    \E disk \in {None} \cup {Some(to_json_value(d)) : d \in CatalogDocs} :
        /\ file = disk
        /\ doc = load_or_create(disk)[1]
        /\ last = NoLast
        /\ phase = 0
        /\ lock = 0
        /\ pc = [p \in Procs |-> "idle"]
        /\ buf = TRUE
        /\ NoManager

DiskFails ==
    /\ buf = TRUE
    /\ buf' = FALSE
    /\ UNCHANGED <<doc, file, last, phase, lock, pc, manager, arcs, calls>>

DiskRecovers ==
    /\ buf = FALSE
    /\ buf' = TRUE
    /\ UNCHANGED <<doc, file, last, phase, lock, pc, manager, arcs, calls>>

UpsertDisk ==
    /\ phase < MaxOps
    /\ \E key \in SeqKeys, language \in {"fr"},
          update \in {Leaf(Absent, Set("X")), Leaf(Set("new"), Set(""))} :
        \E out \in {fs_write(upsert_translation(doc, key, language, update), buf)} :
            Handled(Call("upsert", key, language, update, doc, out), out)

DeleteKeyDisk ==
    /\ phase < MaxOps
    /\ \E key \in {"a", "d"} :
        \E out \in {fs_write(delete_key(doc, key), buf)} :
            Handled(Call("delete_key", key, "", None, doc, out), out)

NextDisk == DiskFails \/ DiskRecovers \/ UpsertDisk \/ DeleteKeyDisk \/ Reload

SpecDisk == InitDisk /\ [][NextDisk]_vars

\* the step is a call of `op` that got as far as fs::write while the file
\* could not be written
WriteFails(op) ==
    /\ phase' = phase + 1
    /\ last'.op = op
    /\ ~buf
    /\ op = "delete_key" => ContainsKey(doc.strings, last'.key)

\* C31: when the disk write of a mutating operation fails the operation
\* returns a failure, the catalog in memory keeps the mutation (the upserted
\* localization, the deleted key staying deleted) and the file keeps its
\* content; a later call that writes makes the file the serialization of the
\* catalog in memory again, and a later successful reload makes the catalog
\* in memory the content of the file.
C31_WriteFailureKeepsMutation ==
    [][ /\ WriteFails("upsert") =>
            /\ last'.err = "ReadFailed"
            /\ file' = file
            /\ doc' = upsert_translation(doc, last'.key, last'.language, last'.arg).doc
            /\ get_translation(doc', last'.key, last'.language) =
                 get_translation(
                     with_entry(doc, last'.key,
                         put_localization(entry_or_insert(doc, last'.key), last'.language,
                             apply_update(
                                 OrDefault(stored_localization(doc, last'.key,
                                                               last'.language),
                                           DefaultLocalization),
                                 last'.arg))),
                     last'.key, last'.language)
        /\ WriteFails("delete_key") =>
            /\ last'.err = "ReadFailed"
            /\ file' = file
            /\ ~ContainsKey(doc'.strings, last'.key)
            /\ doc'.strings = ShiftRemove(doc.strings, last'.key)
        /\ (phase' = phase + 1 /\ last'.wrote) => file' = Some(to_json_value(doc'))
        /\ (phase' = phase + 1 /\ last'.op = "reload" /\ last'.err = "") =>
            Some(doc') = load_or_create(file)
      ]_vars

\* delete_key could not write: the key is gone from memory and still in the file
C31_Witness ==
    /\ last.op = "delete_key"
    /\ last.err = "ReadFailed"
    /\ ~ContainsKey(doc.strings, "a")
    /\ file # None
    /\ file # Some(to_json_value(doc))
    /\ ContainsKey(load_or_create(file)[1].strings, "a")

----------------------------------------------------------------------------
(* update_language with twice the same code                                *)

\* the step is a call of update_language whose two codes are equal once
\* trimmed, and not blank
SameCode ==
    /\ phase' = phase + 1
    /\ last'.op = "update_language"
    /\ trim(last'.language) = trim(last'.arg)
    /\ trim(last'.language) # ""

\* C32: update_language(old, new) with old equal to new after trimming, both
\* non-blank, returns success, leaves the catalog as it was and writes nothing
\* to the file, whether the code is a language of the catalog, its source
\* language or neither.
C32_SameCodeNoOp ==
    [][ SameCode =>
            /\ last'.err = ""
            /\ ~last'.wrote
            /\ doc' = doc
            /\ file' = file ]_vars

\* the source language renamed to itself, written with a leading blank
C32_Witness ==
    /\ last.op = "update_language"
    /\ last.language = "fr"
    /\ last.arg = " fr"
    /\ doc.source_language = "fr"
    /\ last.err = ""
    /\ doc = last.pre

----------------------------------------------------------------------------
(* The order of cases, selectors and substitutions after an upsert         *)

Among(keys, others) ==
    SelectSeq(keys, LAMBDA k : \E i \in 1..Len(others) : others[i] = k)

NotAmong(keys, others) ==
    SelectSeq(keys, LAMBDA k : \A i \in 1..Len(others) : others[i] # k)

\* the names both sequences have come in the same order in both
SameOrder(before, after) == Among(before, after) = Among(after, before)

\* and the names only `after` has come last in it
NewLast(before, after) == after = Among(after, before) \o NotAmong(after, before)

\* C33: an upsert that updates or adds cases of a selector the Localization
\* had keeps the cases the selector had in their order and puts the new cases
\* after them, and it keeps the selectors and the substitutions of the
\* Localization in their order.
C33_VariationOrderKept ==
    Upserted =>
        /\ \A i \in 1..Len(PreLoc.variations) :
            /\ SameOrder(MapKeys(PreLoc.variations[i][2]),
                         MapKeys(CasesOf(PostLoc, PreLoc.variations[i][1])))
            /\ NewLast(MapKeys(PreLoc.variations[i][2]),
                       MapKeys(CasesOf(PostLoc, PreLoc.variations[i][1])))
        /\ SameOrder(MapKeys(PreLoc.variations), MapKeys(PostLoc.variations))
        /\ SameOrder(MapKeys(PreLoc.substitutions), MapKeys(PostLoc.substitutions))

----------------------------------------------------------------------------
(* Calls that fail before they change anything                             *)

RejectionErrors ==
    {"TranslationMissing", "KeyMissing", "KeyExists", "LanguageMissing",
     "LanguageExists", "InvalidLanguage", "CannotRemoveSourceLanguage",
     "CannotRenameSourceLanguage"}

\* C34: an operation that fails with TranslationMissing, KeyMissing,
\* KeyExists, LanguageMissing, LanguageExists, InvalidLanguage,
\* CannotRemoveSourceLanguage or CannotRenameSourceLanguage leaves the catalog
\* in memory exactly as it was before the call and writes nothing to the file.
C34_RejectedCallsChangeNothing ==
    [][ (phase' = phase + 1 /\ last'.err \in RejectionErrors) =>
            /\ doc' = doc
            /\ file' = file
            /\ ~last'.wrote ]_vars

\* a rename onto an existing key, refused after an earlier call changed the
\* catalog and the file
C34_Witness ==
    /\ phase = 2
    /\ last.op = "rename_key"
    /\ last.err = "KeyExists"
    /\ doc = last.pre
    /\ file = Some(to_json_value(doc))

----------------------------------------------------------------------------
(* SpecShared: two callers that look a store up in the manager and change  *)
(* the catalog through the store they were given.  No other program        *)
(* touches the file.  Here `doc` holds the key each caller is changing,    *)
(* and `last` the changes that returned Ok, each with the store it went    *)
(* through, and whether two changes ever ran at the same time.             *)

InitShared ==
    /\ file \in ConcFiles
    /\ \/ /\ manager = XcStringsStoreManager(None, NoStores)
          /\ arcs = <<>>
       \/ /\ manager = XcStringsStoreManager(Some(DefaultPath),
                            [NoStores EXCEPT ![DefaultPath] = 1])
          /\ arcs = <<XcStringsStore(DefaultPath, load_or_create(file)[1])>>
    /\ calls = [p \in Procs |-> NoCall]
    /\ doc = [p \in Procs |-> ""]
    /\ last = [op |-> "none", done |-> {}, overlapped |-> FALSE]
    /\ phase = 0
    /\ SeqIdle

\* set_comment through the store the caller's store_for returned, up to
\* drop(doc): the catalog of the store is changed and serialized under the
\* write lock of the store
SetCommentLocked(p) ==
    /\ phase < MaxCalls
    /\ pc[p] = "idle"
    /\ calls[p].ret # None
    /\ arcs[calls[p].ret[1]].path # "/root/b.xcstrings"
    /\ \E key \in SeqKeys :
        \E out \in {set_comment(arcs[calls[p].ret[1]].data, key, Some("note"))} :
            /\ arcs' = [arcs EXCEPT ![calls[p].ret[1]].data = out.doc]
            /\ buf' = [buf EXCEPT ![p] = out.bytes]
            /\ doc' = [doc EXCEPT ![p] = key]
    /\ last' = [last EXCEPT !.overlapped = @ \/ \E q \in Procs : pc[q] = "write"]
    /\ pc' = [pc EXCEPT ![p] = "write"]
    /\ phase' = phase + 1
    /\ UNCHANGED <<file, lock, manager, calls>>

\* fs::write(&self.path, serialized).await?; Ok(())
SetCommentWrite(p) ==
    /\ pc[p] = "write"
    /\ file' = buf[p]
    /\ buf' = [buf EXCEPT ![p] = None]
    /\ last' = [last EXCEPT !.op = "set_comment",
                            !.done = @ \cup {<<calls[p].ret[1], doc[p]>>}]
    /\ pc' = [pc EXCEPT ![p] = "idle"]
    /\ UNCHANGED <<doc, phase, lock, manager, arcs, calls>>

NextShared ==
    \E p \in Procs :
        \/ StoreForNoPath(p) \/ StoreForHit(p) \/ FinishReload(p)
        \/ StoreForMiss(p) \/ Load(p) \/ Insert(p)
        \/ SetCommentLocked(p) \/ SetCommentWrite(p)

SpecShared == InitShared /\ [][NextShared]_vars

\* the entry of `key` carries the comment the callers set
Commented(d, key) ==
    /\ ContainsKey(d.strings, key)
    /\ MapGet(d.strings, key).comment = Some("note")

\* C35: a reload started by a cache hit of store_for that runs while a
\* mutation of the same store is under way never loses the mutation: once
\* every call has returned, each mutation that returned Ok is in the catalog
\* the store holds and in the file.  (Stated for one store and for mutations
\* that do not overlap one another.)
C35_ReloadKeepsMutation ==
    ( /\ \A p \in Procs : pc[p] = "idle"
      /\ Len(arcs) = 1
      /\ ~last.overlapped )
        => \A m \in last.done :
            /\ Commented(arcs[m[1]].data, m[2])
            /\ file # None
            /\ load_or_create(file) # Err
            /\ Commented(load_or_create(file)[1], m[2])

\* C40: two store_for calls with the same path argument return the same
\* store, also when the file came into existence between the two, written by
\* a mutation through the store the first call returned.
C40_SameArgumentSameStore ==
    \A p, q \in Procs :
        ( /\ calls[p].raw # None
          /\ calls[p].raw = calls[q].raw
          /\ calls[p].ret # None
          /\ calls[q].ret # None )
            => calls[p].ret = calls[q].ret

----------------------------------------------------------------------------
(* Entries a remove_language has no business with                          *)

\* C36: a successful remove_language(code) leaves every Entry that had no
\* Localization for code as it was: still in the catalog, with the same
\* content, and the surviving Entries in their order.
C36_RemoveLanguageFrame ==
    Succeeded("remove_language") =>
        /\ \A i \in 1..Len(last.pre.strings) :
            ~ContainsKey(last.pre.strings[i][2].localizations, trim(last.language)) =>
                MapFind(doc.strings, last.pre.strings[i][1]) = Some(last.pre.strings[i][2])
        /\ SameOrder(MapKeys(last.pre.strings), MapKeys(doc.strings))

----------------------------------------------------------------------------
(* SpecLoad: a store is opened on a file and the catalog is then changed.  *)
(* No store exists at first (doc is None); the files are catalogs as Xcode *)
(* and the store write them and files whose "strings" member is not what   *)
(* the document model expects.                                             *)

\* a catalog file with the given "strings" member
FileWithStrings(strings) ==
    JObj(<< <<"sourceLanguage", JStr("en")>>,
            <<"strings", strings>>,
            <<"version", JStr("1.0")>> >>)

GoodEntryJson ==
    JObj(<< <<"localizations",
              JObj(<< <<"en", JObj(<< <<"stringUnit",
                          JObj(<< <<"state", JStr("translated")>>,
                                  <<"value", JStr("Y")>> >>)>> >>)>> >>)>> >>)

\* "strings" is no object; an entry has a number for its comment; an entry
\* has null for its localizations; a stringUnit has a number for its value
MalformedFiles ==
    { FileWithStrings(JStr("oops")),
      FileWithStrings(JNull),
      FileWithStrings(JObj(<< <<"a", GoodEntryJson>>,
                              <<"b", JObj(<< <<"comment", JNum(5)>> >>)>> >>)),
      FileWithStrings(JObj(<< <<"a", GoodEntryJson>>,
                              <<"b", JObj(<< <<"localizations", JNull>> >>)>> >>)),
      FileWithStrings(JObj(<< <<"a", GoodEntryJson>>,
                              <<"b", JObj(<< <<"localizations",
                                    JObj(<< <<"en", JObj(<< <<"stringUnit",
                                        JObj(<< <<"value", JNum(1)>> >>)>> >>)>> >>)>> >>)>> >>)) }

LoadFiles ==
    MalformedFiles
    \cup LayoutFiles
    \cup {JNull, FileWithStrings(JObj(<< <<"a", GoodEntryJson>> >>))}
    \cup {to_json_value(d) : d \in CatalogDocs}
    \cup {to_json_value(raw) : raw \in SpecialRawDocs}

InitLoad ==
    /\ file \in {None} \cup {Some(json) : json \in LoadFiles}
    /\ doc = None
    /\ last = NoLast
    /\ phase = 0
    /\ SeqIdle
    /\ NoManager

\* XcStringsStore::load_or_create(path): the store holds the normalized
\* catalog, or no store is made when the file cannot be parsed
LoadOrCreate ==
    /\ phase = 0
    /\ \E loaded \in {load_or_create(file)} :
        /\ doc' = IF loaded = Err THEN None ELSE loaded[1]
        /\ last' = [op |-> "load_or_create", disk |-> file,
                    err |-> IF loaded = Err THEN "SerdeFailed" ELSE ""]
    /\ phase' = 1
    /\ UNCHANGED <<file, lock, pc, buf, manager, arcs, calls>>

\* set_comment and delete_key on the store that was opened
SetCommentOpened == doc # None /\ SetComment

DeleteKeyOpened == doc # None /\ DeleteKey

NextLoad == LoadOrCreate \/ SetCommentOpened \/ DeleteKeyOpened

SpecLoad == InitLoad /\ [][NextLoad]_vars

\* the file is a JSON object whose "strings" member is not an object of
\* entries as the document model declares them
MalformedStrings(disk) ==
    /\ disk # None
    /\ disk[1].t = "obj"
    /\ ContainsKey(disk[1].m, "strings")
    /\ deser_map(MapFind(disk[1].m, "strings"),
           SeqOf([i \in 1..Len(ValuesOf(MapFind(disk[1].m, "strings"))) |->
                   deser_entry(ValuesOf(MapFind(disk[1].m, "strings"))[i])])) = Err

\* C37: loading a file that is valid JSON and whose "strings" member does not
\* conform to the catalog schema fails with a parse failure, so that no store
\* ever holds an empty catalog for such a file and no mutation replaces the
\* file's strings.
C37_MalformedStringsRejected ==
    /\ []((last.op = "load_or_create" /\ MalformedStrings(last.disk)) =>
            last.err = "SerdeFailed")
    /\ [][MalformedStrings(file) => file' = file]_vars

----------------------------------------------------------------------------
(* "device" beside a "plural" that normalizes to nothing                   *)

\* the Localization of (a, en) before and after the first normalization
RawLoc == OrDefault(stored_localization(last.pre, "a", "en"), DefaultLocalization)

NormLoc == OrDefault(stored_localization(doc, "a", "en"), DefaultLocalization)

\* what is left of the selector when it is normalized with no other selector
\* beside it
SelectorAlone(loc, selector) ==
    IF ContainsKey(loc.variations, selector)
    THEN validate_and_normalize_variations(
             << <<selector, MapGet(loc.variations, selector)>> >>, TopLevel)
    ELSE <<>>

\* C38: normalization drops a top-level "device" selector that has non-empty
\* cases only when "plural" keeps at least one non-empty case: beside a
\* "plural" whose cases are all pruned as empty, "device" stays.
C38_DeviceDroppedOnlyForPlural ==
    ( /\ phase = 1
      /\ SelectorAlone(RawLoc, "device") # <<>>
      /\ ~ContainsKey(NormLoc.variations, "device") )
        => ContainsKey(NormLoc.variations, "plural")

----------------------------------------------------------------------------
(* "plural" nested in a case of a top-level "device"                       *)

\* the cases the update names under "plural" inside the case `case` of the
\* top-level "device"
NestedPluralUpdates(case) ==
    OrDefault(
        MapFind(OrDefault(OrDefault(MapFind(CaseUpdatesOf("device"), case),
                                    Leaf(Absent, Absent)).variations,
                          <<>>),
                "plural"),
        <<>>)

\* the nested case as stored under device / case / plural / nested
NestedCase(loc, case, nested) == CaseOf(CaseOf(loc, "device", case), "plural", nested)

\* the stored nested case with its update merged in and normalized
MergedNested(case, nested) ==
    normalize_localization_inner(
        apply_update(NestedCase(PreLoc, case, nested),
                     MapGet(NestedPluralUpdates(case), nested)),
        NestedUnderPlural)

\* every non-empty case the update nests under device / case / plural is
\* stored there
NestedPluralStored ==
    \A i \in 1..Len(CaseUpdatesOf("device")) :
        \A j \in 1..Len(NestedPluralUpdates(CaseUpdatesOf("device")[i][1])) :
            ~localization_is_empty(
                MergedNested(CaseUpdatesOf("device")[i][1],
                             NestedPluralUpdates(CaseUpdatesOf("device")[i][1])[j][1]))
            => /\ HasCase(CaseOf(PostLoc, "device", CaseUpdatesOf("device")[i][1]),
                          "plural",
                          NestedPluralUpdates(CaseUpdatesOf("device")[i][1])[j][1])
               /\ NestedCase(PostLoc, CaseUpdatesOf("device")[i][1],
                             NestedPluralUpdates(CaseUpdatesOf("device")[i][1])[j][1])
                    = MergedNested(CaseUpdatesOf("device")[i][1],
                                   NestedPluralUpdates(CaseUpdatesOf("device")[i][1])[j][1])

\* a top-level "plural" the update does not name stays as it was
TopLevelPluralKept ==
    (ContainsKey(PreLoc.variations, "plural") /\ ~ContainsKey(SelectorUpdates, "plural"))
        => MapFind(PostLoc.variations, "plural") = MapFind(PreLoc.variations, "plural")

\* C39 as worded: an upsert that nests "plural" inside a case of a top-level
\* "device" stores the nested "plural" with all its non-empty cases, and no
\* "plural" selector is removed.
C39_NestedPlural_AsWorded ==
    Upserted => (NestedPluralStored /\ TopLevelPluralKept)

\* C39: an upsert that nests "plural" inside a case of a top-level "device"
\* stores the nested "plural" with all its non-empty cases when the
\* Localization has no top-level "plural", stored or named by the update; a
\* top-level "plural" the update does not name stays as it was.
C39_NestedPlural ==
    Upserted =>
        /\ ( /\ ~ContainsKey(PreLoc.variations, "plural")
             /\ ~ContainsKey(SelectorUpdates, "plural") ) => NestedPluralStored
        /\ TopLevelPluralKept

\* a "plural" case was stored inside the case "one" of a top-level "device"
\* that had no nested selector before
C39_Witness ==
    /\ Upserted
    /\ NestedPluralUpdates("one") # <<>>
    /\ ~ContainsKey(PreLoc.variations, "plural")
    /\ ~ContainsKey(SelectorUpdates, "plural")
    /\ ~ContainsKey(CaseOf(PreLoc, "device", "one").variations, "plural")
    /\ HasCase(PreLoc, "device", "one")
    /\ ValueOf(NestedCase(PostLoc, "one", "one")) = Some("X")

====
